---- MODULE Spec2Model ----
(***************************************************************************)
(* Search, patent and literature tools of deer-flow: the Patsnap,          *)
(* Semantic Scholar and PatentsView wrappers (run / lazy_load), the        *)
(* Patsnap token provider and the Semantic Scholar retry loop.             *)
(*                                                                         *)
(* Text is a sequence of one-character strings, so that len(), slicing     *)
(* and substring tests are those of Python's str.                          *)
(***************************************************************************)
EXTENDS Integers, Sequences, FiniteSets, TLC

\* ------------------------------------------------------------------ text

Min(a, b) == IF a <= b THEN a ELSE b

\* s[:n]
Slice(s, n) ==
    IF n >= 0 THEN SubSeq(s, 1, Min(n, Len(s))) ELSE SubSeq(s, 1, Len(s) + n)

\* p in s
Contains(s, p) ==
    \E i \in 0..(Len(s) - Len(p)) : SubSeq(s, i + 1, i + Len(p)) = p

\* A join that leaves the separator out.
RECURSIVE Join_NoSeparator(_, _)
Join_NoSeparator(sep, parts) ==
    IF parts = << >> THEN << >> ELSE parts[1] \o Join_NoSeparator(sep, Tail(parts))

\* sep.join(parts)
RECURSIVE Join(_, _)
Join(sep, parts) ==
    IF parts = << >> THEN << >>
    ELSE IF Len(parts) = 1 THEN parts[1]
    ELSE parts[1] \o sep \o Join(sep, Tail(parts))



\* The letters str.upper() maps, lower case to upper case.
Alphabet ==
    [lower |->
        <<"a","b","c","d","e","f","g","h","i","j","k","l","m","n","o","p","q","r","s","t","u",
          "v","w","x","y","z">>,
     upper |->
        <<"A","B","C","D","E","F","G","H","I","J","K","L","M","N","O","P","Q","R","S","T","U",
          "V","W","X","Y","Z">>]
\* str.upper(), one character
UpperChar(ch) ==
    IF \E i \in 1..Len(Alphabet.lower) : Alphabet.lower[i] = ch
    THEN Alphabet.upper[CHOOSE i \in 1..Len(Alphabet.lower) : Alphabet.lower[i] = ch]
    ELSE ch

\* key.replace('_', ' ').upper()
KeyLabel(key) == [i \in 1..Len(key) |-> UpperChar(IF key[i] = "_" THEN " " ELSE key[i])]

\* the escapes json.dumps applies inside a string
RECURSIVE JsonEscape(_)
JsonEscape(s) ==
    IF s = << >> THEN << >>
    ELSE (CASE s[1] = "\"" -> <<"\\", "\"">>
            [] s[1] = "\\" -> <<"\\", "\\">>
            [] s[1] = "\n" -> <<"\\", "n">>
            [] OTHER -> <<s[1]>>) \o JsonEscape(Tail(s))

Digits == <<"0","1","2","3","4","5","6","7","8","9">>

\* str(n) of a non-negative int
RECURSIVE IntStr(_)
IntStr(n) == IF n < 10 THEN <<Digits[n + 1]>> ELSE IntStr(n \div 10) \o <<Digits[(n % 10) + 1]>>

\* -------------------------------------------------------------- literals

NoPatentResult ==
    <<"N","o"," ","g","o","o","d"," ","P","a","t","e","n","t"," ","R","e","s","u","l","t"," ","w",
    "a","s"," ","f","o","u","n","d">>
NoPapersFound ==
    <<"N","o"," ","a","c","a","d","e","m","i","c"," ","p","a","p","e","r","s"," ","f","o","u","n",
    "d"," ","m","a","t","c","h","i","n","g"," ","y","o","u","r"," ","s","e","a","r","c","h"," ","c",
    "r","i","t","e","r","i","a",".">>
PatsnapExceptionPrefix ==
    <<"P","a","t","s","n","a","p"," ","e","x","c","e","p","t","i","o","n",":"," ">>
SemanticScholarExceptionPrefix ==
    <<"S","e","m","a","n","t","i","c"," ","S","c","h","o","l","a","r"," ","e","x","c","e","p","t",
    "i","o","n",":"," ">>
\* What json.dumps puts around the message of [{"error": str(e)}].
JsonError ==
    [open |->
        <<"[","{","\"","e","r","r","o","r","\"",":"," ","\"">>,
     close |->
        <<"\"","}","]">>]
\* str() of what the requests library raises: raise_for_status (401, 500), a
\* failed connection, response.json() of a body that is not JSON.
MsgRequests ==
    [unauthorized |->
        <<"4","0","1"," ","C","l","i","e","n","t"," ","E","r","r","o","r",":"," ","U","n","a",
          "u","t","h","o","r","i","z","e","d"," ","f","o","r"," ","u","r","l">>,
     server_error |->
        <<"5","0","0"," ","S","e","r","v","e","r"," ","E","r","r","o","r",":"," ","I","n","t",
          "e","r","n","a","l"," ","S","e","r","v","e","r"," ","E","r","r","o","r"," ","f","o",
          "r"," ","u","r","l">>,
     connection |->
        <<"C","o","n","n","e","c","t","i","o","n"," ","a","b","o","r","t","e","d",".">>,
     decode |->
        <<"E","x","p","e","c","t","i","n","g"," ","v","a","l","u","e",":"," ","l","i","n","e",
          " ","1"," ","c","o","l","u","m","n"," ","1"," ","(","c","h","a","r"," ","0",")">>]
\* str() of what urllib raises: HTTPError 429, HTTPError 500, URLError.
MsgUrllib ==
    [too_many_requests |->
        <<"H","T","T","P"," ","E","r","r","o","r"," ","4","2","9",":"," ","T","o","o"," ","M",
          "a","n","y"," ","R","e","q","u","e","s","t","s">>,
     server_error |->
        <<"H","T","T","P"," ","E","r","r","o","r"," ","5","0","0",":"," ","I","n","t","e","r",
          "n","a","l"," ","S","e","r","v","e","r"," ","E","r","r","o","r">>,
     url_error |->
        <<"<","u","r","l","o","p","e","n"," ","e","r","r","o","r"," ","t","i","m","e","d"," ",
          "o","u","t",">">>]
\* str() of the exceptions PatsnapAPIClient raises by itself.
MsgClient ==
    [keys_required |->
        <<"P","A","T","S","N","A","P","_","A","P","I","_","K","E","Y"," ","a","n","d"," ","P",
          "A","T","S","N","A","P","_","A","P","I","_","S","E","C","R","E","T"," ","a","r","e",
          " ","r","e","q","u","i","r","e","d",","," ","p","l","e","a","s","e"," ","s","e","t",
          " ","t","h","e","m"," ","i","n"," ","t","h","e"," ","e","n","v","i","r","o","n","m",
          "e","n","t"," ","v","a","r","i","a","b","l","e","s"," ","o","r"," ","p","a","s","s",
          " ","t","h","e","m"," ","a","s"," ","a","r","g","u","m","e","n","t","s",".">>,
     get_bearer_token_error |->
        <<"g","e","t","_","b","e","a","r","e","r","_","t","o","k","e","n"," ","E","r","r","o",
          "r",":"," ">>,
     upstream |->
        <<"u","p","s","t","r","e","a","m"," ","e","r","r","o","r","_","m","s","g">>,
     none_not_iterable |->
        <<"'","N","o","n","e","T","y","p","e","'"," ","o","b","j","e","c","t"," ","i","s"," ",
          "n","o","t"," ","i","t","e","r","a","b","l","e">>,
     status_false |->
        <<"{","'","s","t","a","t","u","s","'",":"," ","F","a","l","s","e","}">>]
\* The text around {self.max_retry} in the exception after the while loop.
MsgFailed ==
    [prefix |->
        <<"F","a","i","l","e","d"," ","t","o"," ","r","e","t","r","i","e","v","e"," ","S","e",
          "m","a","n","t","i","c"," ","S","c","h","o","l","a","r"," ","r","e","s","u","l","t",
          "s"," ","a","f","t","e","r"," ">>,
     suffix |->
        <<" ","r","e","t","r","i","e","s",".">>]
LitNA ==
    <<"N","/","A">>
LitNone ==
    <<"N","o","n","e">>
LitPatentID ==
    <<"P","a","t","e","n","t"," ","I","D",":"," ">>
LitPatentNumber ==
    <<"P","a","t","e","n","t"," ","N","u","m","b","e","r",":"," ">>
LitTitle ==
    <<"T","i","t","l","e",":"," ">>
LitInventor ==
    <<"I","n","v","e","n","t","o","r",":"," ">>
LitCurrentAssignee ==
    <<"C","u","r","r","e","n","t"," ","A","s","s","i","g","n","e","e",":"," ">>
LitAbstract ==
    <<"A","b","s","t","r","a","c","t",":"," ">>
LitURL ==
    <<"U","R","L",":"," ">>
LitContent ==
    <<"C","o","n","t","e","n","t",":","\n">>
LitPaperSep ==
    <<"\n","\n","-","-","-","\n","\n">>
LitBlockSep ==
    <<"\n","\n">>
\* The labels lazy_load puts before the parts of a paper's content.
\* The labels of _parse_patent_data that are its own.
PatentsViewLabels ==
    [patent_date |->
        <<"P","u","b","l","i","c","a","t","i","o","n"," ","D","a","t","e",":"," ">>,
     assignees |->
        <<"A","s","s","i","g","n","e","e","s",":"," ">>,
     inventors |->
        <<"I","n","v","e","n","t","o","r","s",":"," ">>,
     claims |->
        <<"C","l","a","i","m","s",":">>]
\* The fallbacks of run's result.get(...) for a paper.
PaperDefaults ==
    [title |->
        <<"N","o"," ","T","i","t","l","e">>,
     url |->
        <<"N","o"," ","U","R","L">>,
     content |->
        <<"N","o"," ","c","o","n","t","e","n","t"," ","a","v","a","i","l","a","b","l","e">>]
\* The labels lazy_load puts before the parts of a paper's content.
PaperLabels ==
    [authors |->
        <<"A","u","t","h","o","r","s",":"," ">>,
     year |->
        <<"Y","e","a","r",":"," ">>,
     venue |->
        <<"V","e","n","u","e",":"," ">>,
     citations |->
        <<"C","i","t","a","t","i","o","n","s",":"," ">>,
     references |->
        <<"R","e","f","e","r","e","n","c","e","s",":"," ">>]
K_patents ==
    <<"p","a","t","e","n","t","s">>

\* The keys of a patent record PatsnapAPIWrapper reads.
Key ==
    [patent_id |->
        <<"p","a","t","e","n","t","_","i","d">>,
     pn |->
        <<"p","n">>,
     title |->
        <<"t","i","t","l","e">>,
     inventor |->
        <<"i","n","v","e","n","t","o","r">>,
     current_assignee |->
        <<"c","u","r","r","e","n","t","_","a","s","s","i","g","n","e","e">>,
     Abstract |->
        <<"A","b","s","t","r","a","c","t">>,
     abstract |->
        <<"a","b","s","t","r","a","c","t">>]
\* The keys of the dicts the get_patent_* methods return.
DetailKey ==
    [patent_number |->
        <<"p","a","t","e","n","t","_","n","u","m","b","e","r">>,
     patent_type |->
        <<"p","a","t","e","n","t","_","t","y","p","e">>,
     claims |->
        <<"c","l","a","i","m","s">>,
     claim_count |->
        <<"c","l","a","i","m","_","c","o","u","n","t">>,
     core_invention_points |->
        <<"c","o","r","e","_","i","n","v","e","n","t","i","o","n","_","p","o","i","n","t","s">>,
     enhancement_proposals |->
        <<"e","n","h","a","n","c","e","m","e","n","t","_","p","r","o","p","o","s","a","l","s">>,
     event_status |->
        <<"e","v","e","n","t","_","s","t","a","t","u","s">>,
     legal_status |->
        <<"l","e","g","a","l","_","s","t","a","t","u","s">>,
     simple_legal_status |->
        <<"s","i","m","p","l","e","_","l","e","g","a","l","_","s","t","a","t","u","s">>]
\* The keys of a patent record _parse_patent_data reads.
ViewKey ==
    [patent_title |->
        <<"p","a","t","e","n","t","_","t","i","t","l","e">>,
     patent_abstract |->
        <<"p","a","t","e","n","t","_","a","b","s","t","r","a","c","t">>,
     patent_date |->
        <<"p","a","t","e","n","t","_","d","a","t","e">>,
     assignees |->
        <<"a","s","s","i","g","n","e","e","s">>,
     inventors |->
        <<"i","n","v","e","n","t","o","r","s">>,
     g_claims |->
        <<"g","_","c","l","a","i","m","s">>]
\* The keys of a paper lazy_load reads and writes.
PaperKey ==
    [url |->
        <<"u","r","l">>,
     content |->
        <<"c","o","n","t","e","n","t">>,
     year |->
        <<"y","e","a","r">>,
     venue |->
        <<"v","e","n","u","e">>,
     authors |->
        <<"a","u","t","h","o","r","s">>,
     citationCount |->
        <<"c","i","t","a","t","i","o","n","C","o","u","n","t">>,
     referenceCount |->
        <<"r","e","f","e","r","e","n","c","e","C","o","u","n","t">>]
\* -------------------------------------------------------- Python values

\* A JSON / Python value: t is its type, s its text (str, int), l its items
\* (list; an item is the tuple of the texts of its fields).
PyNone == [t |-> "none", s |-> << >>, l |-> << >>]
PyStr(text) == [t |-> "str", s |-> text, l |-> << >>]
PyInt(n) == [t |-> "int", s |-> IntStr(n), l |-> << >>]
PyList(items) == [t |-> "list", s |-> << >>, l |-> items]

\* bool(v)
Truthy(v) ==
    CASE v.t = "none" -> FALSE
      [] v.t = "str" -> v.s # << >>
      [] v.t = "int" -> v.s # <<"0">>
      [] OTHER -> v.l # << >>

\* repr() of a list of str
ReprList(items) ==
    <<"[">> \o Join(<<",", " ">>, [i \in 1..Len(items) |-> <<"'">> \o items[i][1] \o <<"'">>])
        \o <<"]">>

\* str(v), as an f-string renders it
Str(v) ==
    CASE v.t = "none" -> LitNone
      [] v.t = "list" -> ReprList(v.l)
      [] OTHER -> v.s

\* A dict is the sequence of its (key, value) items in insertion order.
Has(d, k) == \E i \in 1..Len(d) : d[i][1] = k

Index(d, k) == CHOOSE i \in 1..Len(d) : d[i][1] = k

\* d.get(k, default)
Get(d, k, default) == IF Has(d, k) THEN d[Index(d, k)][2] ELSE default

\* d[k] = v
Put(d, k, v) ==
    IF Has(d, k) THEN [d EXCEPT ![Index(d, k)] = <<k, v>>] ELSE Append(d, <<k, v>>)

\* d.update(e)
RECURSIVE Update(_, _)
Update(d, e) == IF e = << >> THEN d ELSE Update(Put(d, e[1][1], e[1][2]), Tail(e))

\* str(KeyError(k))
KeyErrorMsg(k) == <<"'">> \o k \o <<"'">>

\* ----------------------------------------------------- PatsnapAPIClient

\* Python's None where a str is expected (api_key, api_secret, _token).
None == "<None>"

\* not s, for s a str or None
Falsy(s) == s = None \/ s = ""

\* The seconds a token is cached for.
TokenTTL == 1500

\* What the OAuth endpoint may answer to one token exchange of the client c:
\* a token other than the cached one, or a failure.
TokenResponses(c) ==
    {[kind |-> "ok", token |-> IF c._token = "tokA" THEN "tokB" ELSE "tokA"]}
        \cup {[kind |-> k, token |-> None] :
                k \in {"http_401", "status_false", "malformed", "transport"}}

\* str() of the exception a failed exchange raises.
TokenFailureMsg(kind) ==
    CASE kind = "http_401" -> MsgRequests.unauthorized
      [] kind = "malformed" -> MsgRequests.decode
      [] kind = "transport" -> MsgRequests.connection
      [] OTHER -> MsgClient.get_bearer_token_error \o MsgClient.status_false

\* The credentials get_bearer_token refuses to go on without.
CredentialsMissing(c) == Falsy(c.api_key) /\ Falsy(c.api_secret)

\* A get_bearer_token that stamps the expiry before it looks at the answer.
GetBearerToken_StampsFirst(c, resp, now) ==
    IF CredentialsMissing(c)
    THEN [raised |-> TRUE, msg |-> MsgClient.keys_required, client |-> c, value |-> None,
          exchanges |-> 0]
    ELSE IF resp.kind = "ok"
    THEN [raised |-> FALSE, msg |-> << >>,
          client |-> [c EXCEPT !._token = resp.token, !._token_expire = now + TokenTTL],
          value |-> resp.token, exchanges |-> 1]
    ELSE [raised |-> TRUE, msg |-> TokenFailureMsg(resp.kind),
          client |-> [c EXCEPT !._token_expire = now + TokenTTL], value |-> None,
          exchanges |-> 1]

\* get_bearer_token: the client after the call, whether it raised, the token
\* it returned and the number of token-exchange HTTP calls it made.
GetBearerToken(c, resp, now) ==
    IF CredentialsMissing(c)
    THEN [raised |-> TRUE, msg |-> MsgClient.keys_required, client |-> c, value |-> None,
          exchanges |-> 0]
    ELSE IF resp.kind = "ok"
    THEN [raised |-> FALSE, msg |-> << >>,
          client |-> [c EXCEPT !._token = resp.token, !._token_expire = now + TokenTTL],
          value |-> resp.token, exchanges |-> 1]
    ELSE [raised |-> TRUE, msg |-> TokenFailureMsg(resp.kind), client |-> c, value |-> None,
          exchanges |-> 1]

\* The test of the token property: no token, or an expiry that has passed.
\* (_token_expire = 0 stands for None: both are falsy.)
NeedsRefresh(c, now) ==
    Falsy(c._token) \/ (c._token_expire # 0 /\ c._token_expire < now)

\* A token property that never uses the cached token.
Token_NeverCached(c, resp, now) == GetBearerToken(c, resp, now)

\* The token property.
Token(c, resp, now) ==
    IF NeedsRefresh(c, now)
    THEN GetBearerToken(c, resp, now)
    ELSE [raised |-> FALSE, msg |-> << >>, client |-> c, value |-> c._token, exchanges |-> 0]

\* What a Patsnap API endpoint may answer besides a well-formed body.
ApiFailures == {"transport", "http_error", "malformed", "error_code"}

\* str() of the exception a failed API request raises.
ApiFailureMsg(kind) ==
    CASE kind = "transport" -> MsgRequests.connection
      [] kind = "http_error" -> MsgRequests.server_error
      [] kind = "malformed" -> MsgRequests.decode
      [] OTHER -> MsgClient.upstream

\* One authorized request: the token is read for the header, then the request
\* is sent and its answer checked (raise_for_status, json, error_code).
AuthorizedRequest(c, tokResp, resp, now) ==
    LET t == Token(c, tokResp, now)
    IN  IF t.raised
        THEN [raised |-> TRUE, msg |-> t.msg, client |-> t.client, bearer |-> None,
              exchanges |-> t.exchanges, http |-> 0]
        ELSE IF resp.kind \in ApiFailures
        THEN [raised |-> TRUE, msg |-> ApiFailureMsg(resp.kind), client |-> t.client,
              bearer |-> t.value, exchanges |-> t.exchanges, http |-> 1]
        ELSE [raised |-> FALSE, msg |-> << >>, client |-> t.client, bearer |-> t.value,
              exchanges |-> t.exchanges, http |-> 1]

\* patent_search: data["data"]["results"] of a well-formed answer.
PatentSearch(c, tokResp, resp, now) ==
    LET r == AuthorizedRequest(c, tokResp, resp, now)
    IN  [raised |-> r.raised, msg |-> r.msg, client |-> r.client, bearer |-> r.bearer,
         exchanges |-> r.exchanges, http |-> r.http, none |-> FALSE,
         data |-> IF r.raised THEN << >> ELSE resp.data]

\* The early "return None" of the get_patent_* methods (patent_number is
\* never passed by the wrapper).
NoPatentKey(c) ==
    [raised |-> FALSE, msg |-> << >>, client |-> c, bearer |-> None, exchanges |-> 0,
     http |-> 0, none |-> TRUE, data |-> << >>]

\* The shared body of the get_patent_* methods: the defaults are returned when
\* response["data"][0] cannot be read ("degraded"), parsed(d) otherwise.
GetPatentDetail(c, patent_id, tokResp, resp, now, defaults, parsed) ==
    IF ~Truthy(patent_id)
    THEN NoPatentKey(c)
    ELSE LET r == AuthorizedRequest(c, tokResp, resp, now)
         IN  [raised |-> r.raised, msg |-> r.msg, client |-> r.client, bearer |-> r.bearer,
              exchanges |-> r.exchanges, http |-> r.http, none |-> FALSE,
              data |-> IF r.raised THEN << >>
                       ELSE IF resp.kind = "degraded" THEN defaults
                       ELSE parsed]

GetPatentTitleAbstract(c, patent_id, tokResp, resp, now) ==
    GetPatentDetail(c, patent_id, tokResp, resp, now,
        << <<Key.patent_id, patent_id>>, <<DetailKey.patent_number, PyNone>>,
           <<DetailKey.patent_type, PyStr(<< >>)>>, <<Key.title, PyStr(<< >>)>>,
           <<Key.abstract, PyStr(<< >>)>> >>,
        << <<Key.patent_id, Get(resp.data, Key.patent_id, PyNone)>>,
           <<DetailKey.patent_number, Get(resp.data, Key.pn, PyNone)>>,
           <<DetailKey.patent_type, Get(resp.data, DetailKey.patent_type, PyNone)>>,
           <<Key.title, Get(resp.data, Key.title, PyStr(<< >>))>>,
           <<Key.abstract, Get(resp.data, Key.abstract, PyStr(<< >>))>> >>)

GetPatentClaims(c, patent_id, tokResp, resp, now) ==
    GetPatentDetail(c, patent_id, tokResp, resp, now,
        << <<Key.patent_id, patent_id>>, <<DetailKey.patent_number, PyNone>>,
           <<DetailKey.claims, PyStr(<< >>)>>, <<DetailKey.claim_count, PyInt(0)>> >>,
        << <<Key.patent_id, Get(resp.data, Key.patent_id, PyNone)>>,
           <<DetailKey.patent_number, Get(resp.data, Key.pn, PyNone)>>,
           <<DetailKey.claims, Get(resp.data, DetailKey.claims, PyStr(<< >>))>>,
           <<DetailKey.claim_count, Get(resp.data, DetailKey.claim_count, PyNone)>> >>)

GetPatentCoreInventionPoints(c, patent_id, tokResp, resp, now) ==
    GetPatentDetail(c, patent_id, tokResp, resp, now,
        << <<Key.patent_id, patent_id>>, <<DetailKey.patent_number, PyNone>>,
           <<DetailKey.core_invention_points, PyList(<< >>)>>,
           <<DetailKey.enhancement_proposals, PyList(<< >>)>> >>,
        << <<Key.patent_id, Get(resp.data, Key.patent_id, PyNone)>>,
           <<DetailKey.patent_number, Get(resp.data, Key.pn, PyNone)>>,
           <<DetailKey.core_invention_points,
             Get(resp.data, DetailKey.core_invention_points, PyList(<< >>))>>,
           <<DetailKey.enhancement_proposals,
             Get(resp.data, DetailKey.enhancement_proposals, PyList(<< >>))>> >>)

GetPatentLegalStatus(c, patent_id, tokResp, resp, now) ==
    GetPatentDetail(c, patent_id, tokResp, resp, now,
        << <<Key.patent_id, patent_id>>, <<DetailKey.patent_number, PyNone>>,
           <<DetailKey.event_status, PyList(<< >>)>>, <<DetailKey.legal_status, PyList(<< >>)>>,
           <<DetailKey.simple_legal_status, PyList(<< >>)>> >>,
        << <<Key.patent_id, Get(resp.data, Key.patent_id, PyNone)>>,
           <<DetailKey.patent_number, Get(resp.data, Key.pn, PyNone)>>,
           <<DetailKey.event_status, Get(resp.data, DetailKey.event_status, PyList(<< >>))>>,
           <<DetailKey.legal_status, Get(resp.data, DetailKey.legal_status, PyList(<< >>))>>,
           <<DetailKey.simple_legal_status,
             Get(resp.data, DetailKey.simple_legal_status, PyList(<< >>))>> >>)

\* ---------------------------------------------------- PatsnapAPIWrapper

\* What run() hands to its caller: a returned text, or a propagated exception.
\* path tells the return statement taken: "ok" (the try body) or "except".
NoResult == [kind |-> "none", path |-> "none", text |-> << >>]
Returned(path, text) == [kind |-> "returned", path |-> path, text |-> text]
Propagated(msg) == [kind |-> "raised", path |-> "none", text |-> msg]

\* The keys _format_patent does not print again in its loop.
FormatPatentSkippedKeys ==
    {Key.patent_id, Key.pn, Key.title, Key.inventor, Key.current_assignee, Key.Abstract}

\* The loop of _format_patent over patent.items().
RECURSIVE FormatPatentItems(_)
FormatPatentItems(items) ==
    IF items = << >> THEN << >>
    ELSE (IF items[1][1] \in FormatPatentSkippedKeys THEN << >>
          ELSE KeyLabel(items[1][1]) \o <<":", " ">> \o Str(items[1][2]) \o <<"\n">>)
         \o FormatPatentItems(Tail(items))

\* _format_patent: the block, or the KeyError of patent['title'] / patent['inventor'].
FormatPatent(patent) ==
    IF ~Has(patent, Key.title)
    THEN [raised |-> TRUE, msg |-> KeyErrorMsg(Key.title), text |-> << >>]
    ELSE IF ~Has(patent, Key.inventor)
    THEN [raised |-> TRUE, msg |-> KeyErrorMsg(Key.inventor), text |-> << >>]
    ELSE [raised |-> FALSE, msg |-> << >>,
          text |-> LitPatentID \o Str(Get(patent, Key.patent_id, PyNone)) \o <<"\n">>
                   \o LitPatentNumber \o Str(Get(patent, Key.pn, PyNone)) \o <<"\n">>
                   \o LitTitle \o Str(Get(patent, Key.title, PyNone)) \o <<"\n">>
                   \o LitInventor \o Str(Get(patent, Key.inventor, PyNone)) \o <<"\n">>
                   \o LitCurrentAssignee \o Str(Get(patent, Key.current_assignee, PyStr(LitNA)))
                   \o <<"\n">>
                   \o LitAbstract \o Str(Get(patent, Key.abstract, PyStr(LitNA))) \o <<"\n">>
                   \o FormatPatentItems(patent)]

\* A run without its except clause: the exception reaches the caller.
PatsnapRunExcept_Reraise(msg) == Propagated(msg)

\* The except clause of PatsnapAPIWrapper.run.
PatsnapRunExcept(msg) == Returned("except", PatsnapExceptionPrefix \o msg \o <<".">>)

\* A return statement without the [:doc_content_chars_max] cut.
PatsnapRunReturn_Uncut(docs, doc_content_chars_max) ==
    IF docs # << >> THEN Returned("ok", Join(LitBlockSep, docs)) ELSE Returned("ok", NoPatentResult)

\* The return statement of PatsnapAPIWrapper.run.
PatsnapRunReturn(docs, doc_content_chars_max) ==
    IF docs # << >>
    THEN Returned("ok", Slice(Join(LitBlockSep, docs), doc_content_chars_max))
    ELSE Returned("ok", NoPatentResult)

\* PatsnapAPIWrapper.run once load() has returned the patents.
PatsnapRun(patents, doc_content_chars_max) ==
    LET formatted == [i \in 1..Len(patents) |-> FormatPatent(patents[i])]
    IN  IF \E i \in 1..Len(patents) : formatted[i].raised
        THEN PatsnapRunExcept(
                formatted[CHOOSE i \in 1..Len(patents) :
                    /\ formatted[i].raised
                    /\ \A j \in 1..(i - 1) : ~formatted[j].raised].msg)
        ELSE PatsnapRunReturn([i \in 1..Len(patents) |-> formatted[i].text],
                              doc_content_chars_max)

\* The secondary requests get_patent_content makes for one patent, in order
\* (core_invention_points is left at its default, True, by the wrapper).
PatsnapStages(cfg) ==
    SelectSeq(<<"title_abstract", "claims", "core_invention_points", "legal_status">>,
        LAMBDA k : \/ k = "title_abstract" /\ cfg.get_title_abstract
                   \/ k = "claims" /\ cfg.get_claims
                   \/ k = "core_invention_points"
                   \/ k = "legal_status" /\ cfg.get_legal_status)

\* lazy_load's for loop at patent i: the end of the loop (run formats and
\* returns), the KeyError of patent['patent_id'], or the patent's first request.
PatsnapLoop(patents, i, cfg) ==
    IF i > Len(patents)
    THEN [pc |-> "done", result |-> PatsnapRun(patents, cfg.doc_content_chars_max)]
    ELSE IF ~Has(patents[i], Key.patent_id)
    THEN [pc |-> "done", result |-> PatsnapRunExcept(KeyErrorMsg(Key.patent_id))]
    ELSE [pc |-> "detail", result |-> NoResult]

\* One get_patent_* call of get_patent_content.
PatsnapStageCall(kind, c, patent_id, tokResp, resp, now) ==
    CASE kind = "title_abstract" -> GetPatentTitleAbstract(c, patent_id, tokResp, resp, now)
      [] kind = "claims" -> GetPatentClaims(c, patent_id, tokResp, resp, now)
      [] kind = "core_invention_points" ->
            GetPatentCoreInventionPoints(c, patent_id, tokResp, resp, now)
      [] OTHER -> GetPatentLegalStatus(c, patent_id, tokResp, resp, now)

\* -------------------------------------------- SemanticScholarAPIWrapper

\* What the paper-search endpoint may answer to one request.
SemanticScholarFailures == {"http_429", "http_error", "transport", "malformed"}

\* str() of the exception urlopen / json.loads raises.
SemanticScholarFailureMsg(kind) ==
    CASE kind = "http_429" -> MsgUrllib.too_many_requests
      [] kind = "http_error" -> MsgUrllib.server_error
      [] kind = "transport" -> MsgUrllib.url_error
      [] OTHER -> MsgRequests.decode

\* A handler that retries whatever failed.
ShouldRetry_AnyFailure(kind, retry, max_retry) ==
    kind \in SemanticScholarFailures /\ retry < max_retry - 1

\* A handler that sleeps and tries again after every 429.
ShouldRetry_Unbounded(kind, retry, max_retry) == kind = "http_429"

\* The condition under which the HTTPError handler sleeps and tries again.
ShouldRetry(kind, retry, max_retry) == kind = "http_429" /\ retry < max_retry - 1

\* A handler whose wait grows by a fixed step.
Backoff_Linear(sleep_time) == sleep_time + 2

\* A handler that does not back off.
Backoff_Constant(sleep_time) == sleep_time

\* self.sleep_time *= 2
Backoff(sleep_time) == sleep_time * 2

\* The content lazy_load builds for one paper.
PaperContent(paper) ==
    LET abstract == Get(paper, Key.abstract, PyNone)
        authors == Get(paper, PaperKey.authors, PyList(<< >>)).l
        year == Get(paper, PaperKey.year, PyNone)
        venue == Get(paper, PaperKey.venue, PyNone)
        citations == Get(paper, PaperKey.citationCount, PyNone)
        references == Get(paper, PaperKey.referenceCount, PyNone)
        parts ==
            (IF Truthy(abstract) THEN <<LitAbstract \o Str(abstract)>> ELSE << >>)
            \o (IF authors # << >>
                THEN <<PaperLabels.authors
                        \o Join(<<",", " ">>, [i \in 1..Len(authors) |-> authors[i][1]])>>
                ELSE << >>)
            \o (IF Truthy(year) THEN <<PaperLabels.year \o Str(year)>> ELSE << >>)
            \o (IF Truthy(venue) THEN <<PaperLabels.venue \o Str(venue)>> ELSE << >>)
            \o (IF citations.t # "none"
                THEN <<PaperLabels.citations \o Str(citations)>> ELSE << >>)
            \o (IF references.t # "none"
                THEN <<PaperLabels.references \o Str(references)>> ELSE << >>)
    IN  Join(<<"\n">>, parts)

\* The dict lazy_load yields for one paper (score and raw_content are not
\* read by run).
PaperResult(paper) ==
    << <<Key.title, Get(paper, Key.title, PyStr(<< >>))>>,
       <<PaperKey.url, Get(paper, PaperKey.url, PyStr(<< >>))>>,
       <<PaperKey.content, PyStr(PaperContent(paper))>> >>

\* The block run builds for one result.
FormatPaper(res) ==
    LitTitle \o Str(Get(res, Key.title, PyStr(PaperDefaults.title))) \o <<"\n">>
    \o LitURL \o Str(Get(res, PaperKey.url, PyStr(PaperDefaults.url))) \o <<"\n">>
    \o LitContent \o Str(Get(res, PaperKey.content, PyStr(PaperDefaults.content)))

\* The except clause of SemanticScholarAPIWrapper.run.
SemanticScholarRunExcept(msg) == Returned("except", SemanticScholarExceptionPrefix \o msg)

\* A return statement without the "if docs" test: the join of no block.
SemanticScholarRunReturn_NoTest(docs, doc_content_chars_max) ==
    Returned("ok", Slice(Join(LitPaperSep, docs), doc_content_chars_max))

\* The return statement of SemanticScholarAPIWrapper.run.
SemanticScholarRunReturn(docs, doc_content_chars_max) ==
    IF docs # << >>
    THEN Returned("ok", Slice(Join(LitPaperSep, docs), doc_content_chars_max))
    ELSE Returned("ok", NoPapersFound)

\* SemanticScholarAPIWrapper.run once load() has returned the papers of
\* result["data"].
SemanticScholarRun(papers, doc_content_chars_max) ==
    SemanticScholarRunReturn([i \in 1..Len(papers) |-> FormatPaper(PaperResult(papers[i]))],
                             doc_content_chars_max)

\* The exception after the while loop of lazy_load.
RetriesExhaustedMsg(max_retry) == MsgFailed.prefix \o IntStr(max_retry) \o MsgFailed.suffix

\* ------------------------------------------------ PatentsViewAPIClient

\* What a PatentsView endpoint may answer besides a body with the expected key.
PatentsViewFailures == {"transport", "http_error", "malformed", "missing_key"}

\* str() of the exception _request raises, or of the KeyError of
\* result["patents"] / claims["g_claims"].
PatentsViewFailureMsg(kind, key) ==
    CASE kind = "transport" -> MsgRequests.connection
      [] kind = "http_error" -> MsgRequests.server_error
      [] kind = "malformed" -> MsgRequests.decode
      [] OTHER -> KeyErrorMsg(key)

\* _search_patents: the JSON body of the POST to patent/. A dict is a
\* sequence of <<key, value>>; None, {} and [] are << >>.
SearchPatentsPayload(query_obj, fields, options, sortings) ==
    [q |-> query_obj,
     f |-> IF fields # << >> THEN fields
           ELSE <<"patent_id", "patent_title", "patent_date", "inventors.inventor",
                  "patent_abstract", "patent_type">>,
     o |-> IF options # << >> THEN options ELSE << <<"size", 10>> >>,
     s |-> IF sortings # << >> THEN sortings ELSE << <<"patent_date", "desc">> >>]

\* A search_patents that asks for any term whatever the flag.
SearchPatentsRequest_AnyTerm(query, max_results, fuzzy_search) ==
    SearchPatentsPayload(
        [_or |-> << [op |-> "_text_any", field |-> "patent_title", value |-> query],
                    [op |-> "_text_any", field |-> "patent_abstract", value |-> query] >>],
        <<"patent_id", "patent_title", "patent_date", "inventors", "patent_abstract",
          "patent_type", "assignees">>,
        << <<"size", max_results>> >>, << >>)

\* The body search_patents sends for its search.
SearchPatentsRequest(query, max_results, fuzzy_search) ==
    LET search_eq == IF fuzzy_search THEN "_text_any" ELSE "_text_phrase"
        query_obj ==
            [_or |-> << [op |-> search_eq, field |-> "patent_title", value |-> query],
                        [op |-> search_eq, field |-> "patent_abstract", value |-> query] >>]
        fields == <<"patent_id", "patent_title", "patent_date", "inventors", "patent_abstract",
                    "patent_type", "assignees">>
        options == << <<"size", max_results>> >>
    IN  SearchPatentsPayload(query_obj, fields, options, << >>)

\* int(claim_sequence) of a claim item <<claim_sequence, claim_text>>.
ClaimSequence(item) == (CHOOSE i \in 1..Len(Digits) : Digits[i] = item[1][1]) - 1

\* sorted(g_claims, key=claim_sequence): a stable insertion sort.
RECURSIVE InsertClaim(_, _)
InsertClaim(sorted, item) ==
    IF sorted = << >> THEN <<item>>
    ELSE IF ClaimSequence(sorted[Len(sorted)]) <= ClaimSequence(item) THEN Append(sorted, item)
    ELSE Append(InsertClaim(SubSeq(sorted, 1, Len(sorted) - 1), item), sorted[Len(sorted)])

RECURSIVE SortClaims(_)
SortClaims(items) ==
    IF items = << >> THEN << >>
    ELSE InsertClaim(SortClaims(SubSeq(items, 1, Len(items) - 1)), items[Len(items)])

\* _format_results for one patent: inventors <<first, last>> become names,
\* assignees <<organization, city, country>> with an organization become
\* "org city,country", g_claims <<claim_sequence, claim_text>> one text.
FormatResult(patent) ==
    LET inventors == Get(patent, ViewKey.inventors, PyNone)
        p1 == IF Truthy(inventors)
              THEN Put(patent, ViewKey.inventors,
                       PyList([i \in 1..Len(inventors.l) |->
                                 <<inventors.l[i][1] \o <<" ">> \o inventors.l[i][2]>>]))
              ELSE patent
        assignees == Get(p1, ViewKey.assignees, PyNone)
        kept == IF Truthy(assignees)
                THEN SelectSeq(assignees.l, LAMBDA a : a[1] # << >>)
                ELSE << >>
        p2 == IF Truthy(assignees)
              THEN Put(p1, ViewKey.assignees,
                       PyList([i \in 1..Len(kept) |->
                                 <<kept[i][1] \o <<" ">> \o kept[i][2] \o <<",">> \o kept[i][3]>>]))
              ELSE p1
        g_claims == Get(p2, ViewKey.g_claims, PyNone)
        sorted == IF Truthy(g_claims) THEN SortClaims(g_claims.l) ELSE << >>
    IN  IF Truthy(g_claims)
        THEN Put(p2, ViewKey.g_claims,
                 PyStr(Join(<<"\n">>, [i \in 1..Len(sorted) |-> sorted[i][2]])))
        ELSE p2

\* ----------------------------------------------- PatentsViewAPIWrapper

\* ", ".join(v) if v else "N/A", for an assignees / inventors value
JoinNames(v) ==
    IF Truthy(v) THEN Join(<<",", " ">>, [i \in 1..Len(v.l) |-> v.l[i][1]]) ELSE LitNA

\* The claims text _parse_patent_data shows.
ClaimsDisplay(patent, claims_content_chars_max) ==
    LET claims_content == Get(patent, ViewKey.g_claims, PyStr(<< >>))
        claims_display_str == IF Truthy(claims_content) THEN Str(claims_content) ELSE LitNA
    IN  IF Len(claims_display_str) > claims_content_chars_max
        THEN Slice(claims_display_str, claims_content_chars_max)
        ELSE claims_display_str

\* _parse_patent_data
ParsePatentData(patent, claims_content_chars_max) ==
    Join(<<"\n">>,
         << LitPatentID \o Str(Get(patent, Key.patent_id, PyStr(LitNA))),
            LitTitle \o Str(Get(patent, ViewKey.patent_title, PyStr(LitNA))),
            LitAbstract \o Str(Get(patent, ViewKey.patent_abstract, PyStr(LitNA))),
            PatentsViewLabels.patent_date \o Str(Get(patent, ViewKey.patent_date, PyStr(LitNA))),
            PatentsViewLabels.assignees \o JoinNames(Get(patent, ViewKey.assignees, PyList(<< >>))),
            PatentsViewLabels.inventors \o JoinNames(Get(patent, ViewKey.inventors, PyList(<< >>))),
            PatentsViewLabels.claims,
            ClaimsDisplay(patent, claims_content_chars_max) >>)

\* The except clause of PatentsViewAPIWrapper.run: json.dumps([{"error": str(e)}]).
PatentsViewRunExcept(msg) ==
    Returned("except", JsonError.open \o JsonEscape(msg) \o JsonError.close)

\* The return statement of PatentsViewAPIWrapper.run.
PatentsViewRunReturn(results, doc_content_chars_max) ==
    IF results # << >>
    THEN Returned("ok", Slice(Join(LitBlockSep, results), doc_content_chars_max))
    ELSE Returned("ok", NoPatentResult)

\* PatentsViewAPIWrapper.run once search_patents has fetched the patents (and
\* their claims): _format_results, then a block per patent.
PatentsViewRun(patents, cfg) ==
    PatentsViewRunReturn(
        [i \in 1..Len(patents) |->
            ParsePatentData(FormatResult(patents[i]), cfg.claims_content_chars_max)],
        cfg.doc_content_chars_max)

\* search_patents' claims loop at patent i: the end (format and return), the
\* KeyError of patent["patent_id"], or the patent's claims request.
PatentsViewLoop(patents, i, cfg) ==
    IF ~cfg.get_claims \/ i > Len(patents)
    THEN [pc |-> "done", result |-> PatentsViewRun(patents, cfg)]
    ELSE IF ~Has(patents[i], Key.patent_id)
    THEN [pc |-> "done", result |-> PatentsViewRunExcept(KeyErrorMsg(Key.patent_id))]
    ELSE [pc |-> "claims", result |-> NoResult]

\* ------------------------------------------------------ bounds, inputs

\* The most records an upstream search answers with (top_k_results).
MaxResults == 2

\* The largest max_retry a wrapper is configured with.
MaxRetryBound == 3

\* max_retry of SemanticScholarAPIWrapper
DefaultMaxRetry == 3

\* sleep_time of SemanticScholarAPIWrapper, in seconds
DefaultSleepTime == 1

\* The clock stops advancing here.
MaxClock == 3000

\* A new Semantic Scholar run starts only while sleep_time is at most this.
MaxSleepTime == 4

\* SEARCH_CONTENT_MAX_LENGTH
SEARCH_CONTENT_MAX_LENGTH == 4000

\* claims_content_chars_max of PatentsViewAPIWrapper
DefaultClaimsContentCharsMax == 1000

\* The steps time.time() advances by between two steps of the program.
Deltas == {1500}

\* The values doc_content_chars_max is configured with.
DocMaxChoices == {0, 40, SEARCH_CONTENT_MAX_LENGTH}

SeqUpTo(S, n) == UNION {[1..k -> S] : k \in 0..n}

T(ch) == PyStr(<<ch>>)

\* Records of a Patsnap search answer: complete ones, one without 'inventor'
\* and 'current_assignee', one without 'patent_id'.
PatsnapHit(i) ==
    << <<Key.pn, T("P")>>, <<Key.title, T("T")>>, <<Key.inventor, T("I")>>,
       <<Key.patent_id, PyStr(IntStr(i))>>, <<Key.current_assignee, T("C")>> >>

PatsnapPartialHits ==
    { << <<Key.pn, T("Q")>>, <<Key.title, T("S")>>, <<Key.patent_id, T("b")>> >>,
      << <<Key.pn, T("R")>>, <<Key.title, T("V")>>, <<Key.inventor, T("J")>> >> }

\* The result lists of a search answer: up to limit complete records, the
\* last of which may be replaced by a partial one.
PatsnapHitLists(limit) ==
    {[i \in 1..k |-> PatsnapHit(i)] : k \in 0..limit}
        \cup {[i \in 1..k |-> IF i < k THEN PatsnapHit(i) ELSE h] :
                k \in 1..limit, h \in PatsnapPartialHits}

PatsnapSearchResponses(limit) ==
    {[kind |-> "ok", data |-> hits] : hits \in PatsnapHitLists(limit)}
        \cup {[kind |-> k, data |-> << >>] : k \in ApiFailures}

\* response["data"][0] of a well-formed answer to a get_patent_* request
\* (title and abstract as get_text_by_lang picks them).
PatsnapDetailData(kind, patent_id) ==
    << <<Key.patent_id, patent_id>>, <<Key.pn, T("N")>> >> \o
    (CASE kind = "title_abstract" ->
            << <<DetailKey.patent_type, T("B")>>, <<Key.title, T("U")>>, <<Key.abstract, T("A")>> >>
       [] kind = "claims" ->
            << <<DetailKey.claims, PyStr(<<"c", "l", "a", "i", "m">>)>>,
               <<DetailKey.claim_count, PyInt(1)>> >>
       [] kind = "core_invention_points" ->
            << <<DetailKey.core_invention_points, PyList(<< <<<<"x">>>> >>)>>,
               <<DetailKey.enhancement_proposals, PyList(<< >>)>> >>
       [] OTHER ->
            << <<DetailKey.event_status, PyList(<< >>)>>,
               <<DetailKey.legal_status, PyList(<< <<<<"g">>>> >>)>>,
               <<DetailKey.simple_legal_status, PyList(<< >>)>> >>)

PatsnapDetailResponses(kind, patent_id) ==
    {[kind |-> "ok", data |-> PatsnapDetailData(kind, patent_id)],
     [kind |-> "degraded", data |-> << >>]}
        \cup {[kind |-> k, data |-> << >>] : k \in ApiFailures}

\* Papers of a Semantic Scholar answer: with every field, with none.
Papers ==
    { << <<Key.title, T("T")>>, <<PaperKey.url, T("u")>>, <<Key.abstract, T("A")>>,
         <<PaperKey.authors, PyList(<< <<<<"X">>>>, <<<<"Y">>>> >>)>>,
         <<PaperKey.year, PyInt(2024)>>,
         <<PaperKey.citationCount, PyInt(0)>> >>,
      << >> }

SemanticScholarResponses(limit) ==
    {[kind |-> "ok", data |-> ps] : ps \in SeqUpTo(Papers, limit)}
        \cup {[kind |-> k, data |-> << >>] : k \in SemanticScholarFailures}

\* Patents of a PatentsView answer: with every field (one assignee without an
\* organization), with a patent_id only, without patent_id.
PatentsViewHits ==
    { << <<Key.patent_id, T("1")>>, <<ViewKey.patent_title, T("T")>>,
         <<ViewKey.patent_date, T("D")>>,
         <<ViewKey.inventors, PyList(<< << <<"J">>, <<"D">> >> >>)>>,
         <<ViewKey.patent_abstract, T("A")>>,
         <<ViewKey.assignees, PyList(<< << <<"O">>, <<"C">>, <<"U">> >>,
                                  << << >>, <<"C">>, <<"U">> >> >>)>> >>,
      << <<Key.patent_id, T("2")>> >>,
      << <<ViewKey.patent_title, T("V")>> >> }

PatentsViewSearchResponses(limit) ==
    {[kind |-> "ok", data |-> hits] : hits \in SeqUpTo(PatentsViewHits, limit)}
        \cup {[kind |-> k, data |-> << >>] : k \in PatentsViewFailures}

\* claims["g_claims"]: no claim, or two claims out of claim_sequence order.
PatentsViewClaimsResponses ==
    {[kind |-> "ok", data |-> << >>],
     [kind |-> "ok", data |-> << << <<"1">>, <<"y", "y">> >>, << <<"0">>, <<"x", "x">> >> >>]}
        \cup {[kind |-> k, data |-> << >>] : k \in PatentsViewFailures}

\* The wrapper under consideration and its construction arguments.
DefaultCfg ==
    [top_k_results |-> MaxResults, doc_content_chars_max |-> SEARCH_CONTENT_MAX_LENGTH,
     get_title_abstract |-> TRUE, get_claims |-> FALSE, get_legal_status |-> FALSE,
     max_retry |-> MaxRetryBound, claims_content_chars_max |-> DefaultClaimsContentCharsMax]

\* Patsnap wrappers: the default secondary requests with every
\* doc_content_chars_max, the other secondary requests (the wrapper declares
\* no claims_content_chars_max: the value is the budget a caller has in mind),
\* and clients with a credential missing.
PatsnapConfigs ==
    {[tool |-> "patsnap", api_key |-> "key", api_secret |-> "secret",
      cfg |-> [DefaultCfg EXCEPT !.doc_content_chars_max = m]] : m \in DocMaxChoices}
    \cup {[tool |-> "patsnap", api_key |-> "key", api_secret |-> "secret",
           cfg |-> [DefaultCfg EXCEPT !.top_k_results = 1, !.get_title_abstract = FALSE,
                                      !.get_claims = TRUE, !.get_legal_status = TRUE,
                                      !.claims_content_chars_max = c]] :
            c \in {3, DefaultClaimsContentCharsMax}}
    \cup {[tool |-> "patsnap", api_key |-> k, api_secret |-> s,
           cfg |-> [DefaultCfg EXCEPT !.top_k_results = 1]] :
            k \in {None, "key"}, s \in {None, "secret"}}

SemanticScholarConfigs ==
    {[tool |-> "semantic_scholar", api_key |-> None, api_secret |-> None,
      cfg |-> [DefaultCfg EXCEPT !.doc_content_chars_max = m, !.max_retry = r]] :
        m \in DocMaxChoices, r \in 0..MaxRetryBound}

PatentsViewConfigs ==
    {[tool |-> "patents_view", api_key |-> None, api_secret |-> None,
      cfg |-> [DefaultCfg EXCEPT !.doc_content_chars_max = m, !.get_claims = g,
                                 !.claims_content_chars_max = c]] :
        m \in DocMaxChoices, g \in BOOLEAN, c \in {3, DefaultClaimsContentCharsMax}}

Configs == PatsnapConfigs \cup SemanticScholarConfigs \cup PatentsViewConfigs

\* ------------------------------------------------------ config, tools

SearchEngine == {"tavily", "duckduckgo", "brave_search", "arxiv"}

LiteratureSearchEngine == {"pubmed", "semantic_scholar", "arxiv"}

PatentSearchEngine == {"patsnap", "patents_view"}

\* os.getenv(name, default) of a variable whose value is value (None: not set)
Getenv(value, default) == IF value = None THEN default ELSE value

\* search.py builds the Tavily tool only when SEARCH_API names it.
tavily_search_tool(e) ==
    IF Getenv(e.SEARCH_API, "") = "tavily" THEN "tavily_search_tool" ELSE None

search_tool_mappings(e) ==
    << <<"tavily", tavily_search_tool(e)>>,
       <<"duckduckgo", "duckduckgo_search_tool">>,
       <<"brave_search", "brave_search_tool">>,
       <<"arxiv", "arxiv_search_tool">> >>

literature_search_tool_mappings ==
    << <<"pubmed", "pubmed_search_tool">>,
       <<"semantic_scholar", "semantic_scholar_search_tool">>,
       <<"arxiv", "arxiv_search_tool">> >>

patent_search_tool_mappings == << <<"patsnap", "patsnap_search_tool">> >>

\* What src.tools exports under the environment e.
ExportedTools(e) ==
    [web_search_tool |->
        Get(search_tool_mappings(e), Getenv(e.SEARCH_API, "tavily"), tavily_search_tool(e)),
     literature_search_tool |->
        Get(literature_search_tool_mappings, Getenv(e.LITERATURE_SEARCH_API, "pubmed"),
            "pubmed_search_tool"),
     patent_search_tool |->
        Get(patent_search_tool_mappings, Getenv(e.PATENT_SEARCH_API, "patsnap"),
            "patsnap_search_tool")]

\* The engine each tool of search.py queries.
ToolEngine ==
    << <<"tavily_search_tool", "tavily">>,
       <<"duckduckgo_search_tool", "duckduckgo">>,
       <<"brave_search_tool", "brave_search">>,
       <<"arxiv_search_tool", "arxiv">>,
       <<"pubmed_search_tool", "pubmed">>,
       <<"semantic_scholar_search_tool", "semantic_scholar">>,
       <<"patsnap_search_tool", "patsnap">> >>

\* The environments: each variable not set, set to an engine of its enum, or
\* set to a name that is no engine.
Envs ==
    [SEARCH_API : SearchEngine \cup {None, "other"},
     LITERATURE_SEARCH_API : LiteratureSearchEngine \cup {None, "other"},
     PATENT_SEARCH_API : PatentSearchEngine \cup {None, "other"}]

\* ---------------------------------------------------------------- state

VARIABLES
    instances,   \* the attributes of the class PatsnapAPIClient and of its instances
    call,        \* a call of a client method by itself: its arguments, what it sent
    threads,     \* the threads that share one PatsnapAPIClient, each inside a request
    env,         \* os.environ: SEARCH_API, LITERATURE_SEARCH_API, PATENT_SEARCH_API
    exported,    \* web_search_tool, literature_search_tool, patent_search_tool of src.tools
    tool,        \* the wrapper: "patsnap", "semantic_scholar" or "patents_view"
    cfg,         \* the wrapper's fields set at construction
    sleep_time,  \* SemanticScholarAPIWrapper.sleep_time, in seconds
    client,      \* PatsnapAPIClient: api_key, api_secret, _token, _token_expire
    now,         \* time.time()
    pc,          \* where run() is: "idle", "retrying", "detail", "claims", "done"
    patents,     \* the records of the primary search, merged as details arrive
    idx,         \* the record the loop is at
    stage,       \* the secondary request get_patent_content is at
    details,     \* get_patent_content's data
    retry,       \* lazy_load's retry counter
    result,      \* what run() handed to its caller
    hist         \* what this run did: the numbers of token exchanges, API requests
                 \* and token reads, the sleeps, the answers to the Semantic
                 \* Scholar requests, the primary search, the last token read,
                 \* the client's expiry after the first token exchange

vars ==
    <<instances, call, threads, env, exported, tool, cfg, sleep_time, client, now, pc, patents,
      idx, stage, details, retry, result, hist>>

\* The record of one read of client.token: whether it went to get_bearer_token,
\* the answer of the OAuth endpoint if it was asked, and the outcome.
NoRead ==
    [valid |-> FALSE, refreshed |-> FALSE, kind |-> "none", raised |-> FALSE, value |-> None,
     exchanges |-> 0]

ReadOf(c, tokResp, t) ==
    LET r == Token(c, tokResp, t)
    IN  [valid |-> TRUE, refreshed |-> NeedsRefresh(c, t),
         kind |-> IF r.exchanges = 0 THEN "none" ELSE tokResp.kind, raised |-> r.raised,
         value |-> r.value, exchanges |-> r.exchanges]

NoPrimary == [done |-> FALSE, failed |-> FALSE, msg |-> << >>, count |-> 0]

\* The last secondary request of this run that did not give its data: how it
\* failed ("token" when the token read before it raised), for which record
\* and which request of get_patent_content.
NoAux == [kind |-> "none", idx |-> 0, stage |-> "none"]

NoHist ==
    [exchanges |-> 0, requests |-> 0, reads |-> 0, sleeps |-> << >>, answers |-> << >>,
     primary |-> NoPrimary, read |-> NoRead, aux |-> NoAux, expires_at |-> 0]

\* hist after one Patsnap request r made with the client c.
PatsnapHist(h, c, tokResp, r) ==
    IF r.none THEN h
    ELSE [h EXCEPT !.exchanges = @ + r.exchanges, !.requests = @ + r.http, !.reads = @ + 1,
                   !.read = ReadOf(c, tokResp, now),
                   !.expires_at = IF h.exchanges = 0 /\ r.exchanges = 1
                                  THEN r.client._token_expire ELSE @]

\* The PatsnapAPIClient objects of a process.
Instances == {"c1", "c2"}

\* The class attributes of PatsnapAPIClient (api_key and api_secret as the
\* environment gave them at import) and an instance dict per object: a dict
\* is a sequence of <<name, value>>. (_token_expire = 0 stands for None.)
NoInstances ==
    [cls |-> [api_key |-> "key", api_secret |-> "secret", _token |-> None, _token_expire |-> 0],
     own |-> [i \in Instances |-> << >>]]

\* self.<name>: the instance's own attribute, else the class attribute.
Attr(objs, i, name) == Get(objs.own[i], name, objs.cls[name])

\* An assignment through self that lands on the class.
SetAttr_OnClass(objs, i, name, value) == [objs EXCEPT !.cls[name] = value]

\* self.<name> = value: the attribute is set in the instance's own dict.
SetAttr(objs, i, name, value) == [objs EXCEPT !.own[i] = Put(@, name, value)]

\* The object as its methods see it.
View(objs, i) ==
    [api_key |-> Attr(objs, i, "api_key"), api_secret |-> Attr(objs, i, "api_secret"),
     _token |-> Attr(objs, i, "_token"), _token_expire |-> Attr(objs, i, "_token_expire")]

\* No client method has been called by itself.
NoCall ==
    [fn |-> "none", query |-> << >>, max_results |-> 0, fuzzy_search |-> FALSE, sent |-> << >>]

\* The threads calling run() on the module-level patsnap_search_tool.
Threads == {"t1", "t2"}

\* One thread: where it is in a request, the cached pair its read of
\* client.token saw at the test, how its token exchange ended, the token the
\* read returned, and the requests it has sent.
NoThread ==
    [pc |-> "none", cause |-> [_token |-> None, _token_expire |-> 0], got |-> "none",
     value |-> None, sent |-> 0]

\* Either src.tools is about to be imported under some environment, or a
\* wrapper has been constructed (no variable set) and run() is about to be
\* called on it.
Init ==
    \E k \in Configs, e \in Envs :
        /\ \/ /\ pc = "import"
              /\ env = e
              /\ exported = [web_search_tool |-> "", literature_search_tool |-> "",
                             patent_search_tool |-> ""]
              /\ tool = "none"
              /\ k = [tool |-> "patsnap", api_key |-> None, api_secret |-> None,
                      cfg |-> [DefaultCfg EXCEPT !.top_k_results = 1]]
           \/ /\ pc = "idle"
              /\ env = [SEARCH_API |-> None, LITERATURE_SEARCH_API |-> None,
                        PATENT_SEARCH_API |-> None]
              /\ e = env
              /\ exported = ExportedTools(env)
              /\ tool = k.tool
        /\ threads = [t \in Threads |-> NoThread]
        /\ call = NoCall
        /\ instances = NoInstances
        /\ cfg = k.cfg
        /\ sleep_time = DefaultSleepTime
        /\ client = [api_key |-> k.api_key, api_secret |-> k.api_secret, _token |-> None,
                     _token_expire |-> 0]
        /\ now = 0
        /\ patents = << >>
        /\ idx = 1
        /\ stage = 1
        /\ details = << >>
        /\ retry = 0
        /\ result = NoResult
        /\ hist = NoHist

\* --------------------------------------------------------------- actions

\* src/tools/__init__.py is imported: the three tools are chosen.
ImportTools ==
    /\ pc = "import"
    /\ pc' = "imported"
    /\ exported' = ExportedTools(env)
    /\ UNCHANGED <<instances, call, threads, env, tool, cfg, sleep_time, client, now, patents,
                   idx, stage, details, retry, result, hist>>

\* time passes (PatsnapAPIClient is the only reader of the clock)
Tick ==
    /\ tool = "patsnap"
    /\ \E d \in Deltas :
        /\ now + d <= MaxClock
        /\ now' = now + d
    /\ UNCHANGED <<instances, call, threads, env, exported, tool, cfg, sleep_time, client, pc,
                   patents, idx, stage, details, retry, result, hist>>

\* the caller invokes run() again on the same wrapper
Invoke ==
    /\ pc = "done"
    /\ pc' = "idle"
    /\ patents' = << >>
    /\ idx' = 1
    /\ stage' = 1
    /\ details' = << >>
    /\ retry' = 0
    /\ result' = NoResult
    /\ hist' = NoHist
    /\ UNCHANGED <<instances, call, threads, env, exported, tool, cfg, sleep_time, client, now>>

\* lazy_load's try / except around patent_search: a failure is logged and the
\* generator returns without a record.
LazyLoadSearch(r) == IF r.raised THEN << >> ELSE r.data

\* PatsnapAPIWrapper.run up to the answer of the primary search.
PatsnapSearch ==
    /\ tool = "patsnap"
    /\ pc = "idle"
    /\ \E tokResp \in TokenResponses(client), resp \in PatsnapSearchResponses(cfg.top_k_results) :
        LET r == PatentSearch(client, tokResp, resp, now)
            hits == LazyLoadSearch(r)
            next == PatsnapLoop(hits, 1, cfg)
        IN  /\ client' = r.client
            /\ patents' = hits
            /\ pc' = next.pc
            /\ result' = next.result
            /\ hist' = [PatsnapHist(hist, client, tokResp, r) EXCEPT
                          !.primary = [done |-> TRUE, failed |-> r.raised, msg |-> r.msg,
                                       count |-> Len(r.data)]]
    /\ idx' = 1
    /\ stage' = 1
    /\ details' = << >>
    /\ UNCHANGED <<instances, call, threads, env, exported, tool, cfg, sleep_time, now, retry>>

\* One secondary request of get_patent_content for the patent lazy_load is at;
\* after the last one the details are merged and the loop goes on.
PatsnapFetch(kind) ==
    /\ tool = "patsnap"
    /\ pc = "detail"
    /\ PatsnapStages(cfg)[stage] = kind
    /\ LET patent_id == Get(patents[idx], Key.patent_id, PyNone)
       IN  \E tokResp \in TokenResponses(client), resp \in PatsnapDetailResponses(kind, patent_id) :
            LET r == PatsnapStageCall(kind, client, patent_id, tokResp, resp, now)
                data == Update(details, r.data)
                merged == [patents EXCEPT ![idx] = Update(patents[idx], data)]
                next == PatsnapLoop(merged, idx + 1, cfg)
                last == stage = Len(PatsnapStages(cfg))
                failed == r.raised \/ r.none
            IN  /\ client' = r.client
                /\ hist' = [PatsnapHist(hist, client, tokResp, r) EXCEPT
                              !.aux = IF r.raised /\ r.http = 0
                                      THEN [kind |-> "token", idx |-> idx, stage |-> kind]
                                      ELSE IF r.raised \/ resp.kind = "degraded"
                                      THEN [kind |-> resp.kind, idx |-> idx, stage |-> kind]
                                      ELSE @]
                /\ pc' = IF failed THEN "done" ELSE IF last THEN next.pc ELSE "detail"
                /\ result' = IF r.raised THEN PatsnapRunExcept(r.msg)
                             ELSE IF r.none THEN PatsnapRunExcept(MsgClient.none_not_iterable)
                             ELSE IF last THEN next.result
                             ELSE NoResult
                /\ patents' = IF ~failed /\ last THEN merged ELSE patents
                /\ idx' = IF ~failed /\ last THEN idx + 1 ELSE idx
                /\ stage' = IF failed THEN stage ELSE IF last THEN 1 ELSE stage + 1
                /\ details' = IF failed THEN details ELSE IF last THEN << >> ELSE data
    /\ UNCHANGED <<instances, call, threads, env, exported, tool, cfg, sleep_time, now, retry>>

GetPatentTitleAbstractStep == PatsnapFetch("title_abstract")

GetPatentClaimsStep == PatsnapFetch("claims")

GetPatentCoreInventionPointsStep == PatsnapFetch("core_invention_points")

GetPatentLegalStatusStep == PatsnapFetch("legal_status")

\* One pass of lazy_load's while loop: the request and what follows its answer
\* (the results and run's return, the sleep and the next pass, or the raise).
SemanticScholarRequest ==
    /\ tool = "semantic_scholar"
    /\ pc \in {"idle", "retrying"}
    /\ pc = "idle" => sleep_time <= MaxSleepTime
    /\ retry < cfg.max_retry
    /\ \E resp \in SemanticScholarResponses(cfg.top_k_results) :
        LET again == ShouldRetry(resp.kind, retry, cfg.max_retry)
            failed == resp.kind \in SemanticScholarFailures
        IN  /\ pc' = IF again THEN "retrying" ELSE "done"
            /\ retry' = IF again THEN retry + 1 ELSE retry
            /\ sleep_time' = IF again THEN Backoff(sleep_time) ELSE sleep_time
            /\ patents' = IF failed THEN << >> ELSE resp.data
            /\ result' = IF again THEN NoResult
                         ELSE IF failed
                         THEN SemanticScholarRunExcept(SemanticScholarFailureMsg(resp.kind))
                         ELSE SemanticScholarRun(resp.data, cfg.doc_content_chars_max)
            /\ hist' = [hist EXCEPT
                          !.requests = @ + 1,
                          !.sleeps = IF again THEN Append(@, sleep_time) ELSE @,
                          !.primary = IF again THEN @
                                      ELSE [done |-> TRUE, failed |-> failed,
                                            msg |-> IF failed
                                                    THEN SemanticScholarFailureMsg(resp.kind)
                                                    ELSE << >>,
                                            count |-> Len(resp.data)],
                          !.answers = Append(@, resp.kind)]
    /\ UNCHANGED <<instances, call, threads, env, exported, tool, cfg, client, now, idx, stage,
                   details>>

\* The while loop ends without a return: lazy_load raises after the loop.
SemanticScholarExhausted ==
    /\ tool = "semantic_scholar"
    /\ pc \in {"idle", "retrying"}
    /\ ~(retry < cfg.max_retry)
    /\ pc' = "done"
    /\ result' = SemanticScholarRunExcept(RetriesExhaustedMsg(cfg.max_retry))
    /\ hist' = [hist EXCEPT !.primary = [done |-> TRUE, failed |-> TRUE,
                                         msg |-> RetriesExhaustedMsg(cfg.max_retry),
                                         count |-> 0]]
    /\ UNCHANGED <<instances, call, threads, env, exported, tool, cfg, sleep_time, client, now,
                   patents, idx, stage, details, retry>>

\* PatentsViewAPIWrapper.run up to the answer of the primary search.
PatentsViewSearch ==
    /\ tool = "patents_view"
    /\ pc = "idle"
    /\ \E resp \in PatentsViewSearchResponses(cfg.top_k_results) :
        LET failed == resp.kind \in PatentsViewFailures
            msg == PatentsViewFailureMsg(resp.kind, K_patents)
            next == PatentsViewLoop(resp.data, 1, cfg)
        IN  /\ patents' = resp.data
            /\ pc' = IF failed THEN "done" ELSE next.pc
            /\ result' = IF failed THEN PatentsViewRunExcept(msg) ELSE next.result
            /\ hist' = [hist EXCEPT
                          !.requests = @ + 1,
                          !.primary = [done |-> TRUE, failed |-> failed,
                                       msg |-> IF failed THEN msg ELSE << >>,
                                       count |-> Len(resp.data)]]
    /\ idx' = 1
    /\ UNCHANGED <<instances, call, threads, env, exported, tool, cfg, sleep_time, client, now,
                   stage, details, retry>>

\* search_patents' claims request for the patent its loop is at.
PatentsViewGetClaims ==
    /\ tool = "patents_view"
    /\ pc = "claims"
    /\ \E resp \in PatentsViewClaimsResponses :
        LET failed == resp.kind \in PatentsViewFailures
            merged == [patents EXCEPT
                         ![idx] = Put(patents[idx], ViewKey.g_claims, PyList(resp.data))]
            next == PatentsViewLoop(merged, idx + 1, cfg)
        IN  /\ patents' = IF failed THEN patents ELSE merged
            /\ idx' = IF failed THEN idx ELSE idx + 1
            /\ pc' = IF failed THEN "done" ELSE next.pc
            /\ result' = IF failed
                         THEN PatentsViewRunExcept(
                                  PatentsViewFailureMsg(resp.kind, ViewKey.g_claims))
                         ELSE next.result
            /\ hist' = [hist EXCEPT
                          !.requests = @ + 1,
                          !.aux = IF failed
                                  THEN [kind |-> resp.kind, idx |-> idx, stage |-> "claims"]
                                  ELSE @]
    /\ UNCHANGED <<instances, call, threads, env, exported, tool, cfg, sleep_time, client, now,
                   stage, details, retry>>

Next ==
    \/ ImportTools
    \/ Tick
    \/ Invoke
    \/ PatsnapSearch
    \/ GetPatentTitleAbstractStep
    \/ GetPatentClaimsStep
    \/ GetPatentCoreInventionPointsStep
    \/ GetPatentLegalStatusStep
    \/ SemanticScholarRequest
    \/ SemanticScholarExhausted
    \/ PatentsViewSearch
    \/ PatentsViewGetClaims

Spec == Init /\ [][Next]_vars

\* lazy_load runs in the thread that called run(): once called, each pass of
\* its loop and the raise after the loop are taken.
SpecFair ==
    /\ Init
    /\ [][Next]_vars
    /\ WF_vars(SemanticScholarRequest)
    /\ WF_vars(SemanticScholarExhausted)

\* ------------------------------------------- threads sharing one client

\* The requests one thread makes.
MaxRequests == 2

\* search.py builds one PatsnapAPIClient for patsnap_search_tool; each thread
\* is inside run() on that tool, about to make a request.
InitThreads ==
    /\ threads = [t \in Threads |-> [NoThread EXCEPT !.pc = "ready"]]
    /\ call = NoCall
    /\ instances = NoInstances
    /\ env = [SEARCH_API |-> None, LITERATURE_SEARCH_API |-> None, PATENT_SEARCH_API |-> None]
    /\ exported = ExportedTools(env)
    /\ tool = "patsnap"
    /\ cfg = DefaultCfg
    /\ sleep_time = DefaultSleepTime
    /\ client = [api_key |-> "key", api_secret |-> "secret", _token |-> None,
                 _token_expire |-> 0]
    /\ now = 0
    /\ pc = "threads"
    /\ patents = << >>
    /\ idx = 1
    /\ stage = 1
    /\ details = << >>
    /\ retry = 0
    /\ result = NoResult
    /\ hist = NoHist

\* What no thread step changes.
ThreadFrame ==
    UNCHANGED <<instances, call, env, exported, tool, cfg, sleep_time, now, pc, patents, idx,
                stage, details, retry, result>>

\* The test of the token property, made by the thread building the headers of
\* a request: on to get_bearer_token, or the cached token is returned.
ThreadReadToken(t) ==
    /\ threads[t].pc = "ready"
    /\ threads[t].sent < MaxRequests
    /\ threads' =
        [threads EXCEPT ![t] =
            IF NeedsRefresh(client, now)
            THEN [@ EXCEPT !.pc = "get_bearer_token", !.got = "none", !.value = None,
                           !.cause = [_token |-> client._token,
                                      _token_expire |-> client._token_expire]]
            ELSE [@ EXCEPT !.pc = "send", !.got = "none", !.value = client._token]]
    /\ hist' = [hist EXCEPT !.reads = @ + 1]
    /\ UNCHANGED client
    /\ ThreadFrame

\* get_bearer_token up to requests.post: the exchange is sent, unless the
\* credentials are missing.
ThreadPost(t) ==
    /\ threads[t].pc = "get_bearer_token"
    /\ IF CredentialsMissing(client)
       THEN /\ threads' = [threads EXCEPT ![t].pc = "ready", ![t].got = "failed",
                                          ![t].sent = @ + 1]
            /\ UNCHANGED hist
       ELSE /\ threads' = [threads EXCEPT ![t].pc = "in_flight"]
            /\ hist' = [hist EXCEPT !.exchanges = @ + 1]
    /\ UNCHANGED client
    /\ ThreadFrame

\* The OAuth endpoint answers: get_bearer_token raises, or stores the token.
ThreadAnswer(t) ==
    /\ threads[t].pc = "in_flight"
    /\ \E resp \in TokenResponses(client) :
        LET r == GetBearerToken(client, resp, now)
        IN  IF r.raised
            THEN /\ threads' = [threads EXCEPT ![t].pc = "ready", ![t].got = "failed",
                                               ![t].sent = @ + 1]
                 /\ UNCHANGED client
            ELSE /\ threads' = [threads EXCEPT ![t].pc = "stamp"]
                 /\ client' = [client EXCEPT !._token = r.client._token]
    /\ UNCHANGED hist
    /\ ThreadFrame

\* get_bearer_token stores the expiry, read from the clock at this moment.
ThreadStamp(t) ==
    /\ threads[t].pc = "stamp"
    /\ client' = [client EXCEPT !._token_expire = now + TokenTTL]
    /\ threads' = [threads EXCEPT ![t].pc = "return", ![t].got = "ok"]
    /\ UNCHANGED hist
    /\ ThreadFrame

\* get_bearer_token returns self._token as it is at this moment.
ThreadReturn(t) ==
    /\ threads[t].pc = "return"
    /\ threads' = [threads EXCEPT ![t].pc = "send", ![t].value = client._token]
    /\ UNCHANGED <<client, hist>>
    /\ ThreadFrame

\* The request goes out with the token in its authorization header.
ThreadSend(t) ==
    /\ threads[t].pc = "send"
    /\ threads' = [threads EXCEPT ![t].pc = "ready", ![t].sent = @ + 1]
    /\ hist' = [hist EXCEPT !.requests = @ + 1]
    /\ UNCHANGED client
    /\ ThreadFrame

NextThreads ==
    \/ Tick
    \/ \E t \in Threads : ThreadReadToken(t)
    \/ \E t \in Threads : ThreadPost(t)
    \/ \E t \in Threads : ThreadAnswer(t)
    \/ \E t \in Threads : ThreadStamp(t)
    \/ \E t \in Threads : ThreadReturn(t)
    \/ \E t \in Threads : ThreadSend(t)

SpecThreads == InitThreads /\ [][NextThreads]_vars

\* ------------------------------------------------ search_patents alone

\* The largest max_results search_patents is called with.
MaxSize == 5

\* The query strings search_patents is called with.
Queries == {<< >>, <<"a">>, <<"a", " ", "b">>, <<"\"">>, <<"_", "o", "r">>}

\* A caller is about to call PatentsViewAPIClient.search_patents.
InitSearchPatents ==
    /\ call \in [fn : {"search_patents"}, query : Queries, max_results : 0..MaxSize,
                  fuzzy_search : BOOLEAN, sent : {<< >>}]
    /\ threads = [t \in Threads |-> NoThread]
    /\ instances = NoInstances
    /\ env = [SEARCH_API |-> None, LITERATURE_SEARCH_API |-> None, PATENT_SEARCH_API |-> None]
    /\ exported = ExportedTools(env)
    /\ tool = "patents_view"
    /\ cfg = DefaultCfg
    /\ sleep_time = DefaultSleepTime
    /\ client = [api_key |-> None, api_secret |-> None, _token |-> None, _token_expire |-> 0]
    /\ now = 0
    /\ pc = "call"
    /\ patents = << >>
    /\ idx = 1
    /\ stage = 1
    /\ details = << >>
    /\ retry = 0
    /\ result = NoResult
    /\ hist = NoHist

\* search_patents up to the POST of _search_patents.
SearchPatentsCall ==
    /\ call.fn = "search_patents"
    /\ call.sent = << >>
    /\ call' = [call EXCEPT !.sent = <<SearchPatentsRequest(call.query, call.max_results,
                                                            call.fuzzy_search)>>]
    /\ UNCHANGED <<instances, threads, env, exported, tool, cfg, sleep_time, client, now, pc,
                   patents, idx, stage, details, retry, result, hist>>

NextSearchPatents == SearchPatentsCall

SpecSearchPatents == InitSearchPatents /\ [][NextSearchPatents]_vars

\* --------------------------------------------- two clients, one class

\* Two clients have been constructed, each with or without an api_key of its
\* own (__init__ sets the instance attribute only for a truthy argument).
InitInstances ==
    /\ instances \in {[NoInstances EXCEPT !.own = o] :
                        o \in [Instances -> {<< >>, << <<"api_key", "key2">> >>}]}
    /\ call = NoCall
    /\ threads = [t \in Threads |-> NoThread]
    /\ env = [SEARCH_API |-> None, LITERATURE_SEARCH_API |-> None, PATENT_SEARCH_API |-> None]
    /\ exported = ExportedTools(env)
    /\ tool = "patsnap"
    /\ cfg = DefaultCfg
    /\ sleep_time = DefaultSleepTime
    /\ client = [api_key |-> None, api_secret |-> None, _token |-> None, _token_expire |-> 0]
    /\ now = 0
    /\ pc = "instances"
    /\ patents = << >>
    /\ idx = 1
    /\ stage = 1
    /\ details = << >>
    /\ retry = 0
    /\ result = NoResult
    /\ hist = NoHist

\* One read of the token property of the client i: a token exchange that
\* succeeds assigns self._token and self._token_expire.
InstanceReadToken(i) ==
    /\ \E resp \in TokenResponses(View(instances, i)) :
        LET r == Token(View(instances, i), resp, now)
        IN  instances' =
                IF r.exchanges = 1 /\ ~r.raised
                THEN SetAttr(SetAttr(instances, i, "_token", r.client._token),
                             i, "_token_expire", r.client._token_expire)
                ELSE instances
    /\ UNCHANGED <<call, threads, env, exported, tool, cfg, sleep_time, client, now, pc, patents,
                   idx, stage, details, retry, result, hist>>

NextInstances ==
    \/ Tick
    \/ \E i \in Instances : InstanceReadToken(i)

SpecInstances == InitInstances /\ [][NextInstances]_vars

\* ---------------------------------------------------------------- claims

LitException ==
    <<"e","x","c","e","p","t","i","o","n">>
NoGoodResult ==
    <<"N","o"," ","g","o","o","d"," ","r","e","s","u","l","t"," ","w","a","s"," ","f","o","u","n",
    "d">>

Sentinel == IF tool = "semantic_scholar" THEN NoPapersFound ELSE NoPatentResult

\* The primary search of this run was answered with no record.
ZeroRecords == hist.primary.done /\ ~hist.primary.failed /\ hist.primary.count = 0

\* C1: run() of each of the three wrappers ends by returning a string,
\* whatever the token exchange, the primary search, the secondary requests,
\* the retries and the formatting did (a record without a key the formatter
\* indexes included); no exception reaches the caller.
C1_RunReturnsText ==
    /\ result.kind # "raised"
    /\ pc = "done" => result.kind = "returned"

\* A Patsnap run whose record lacks 'inventor' ended in the except clause.
C1_Witness ==
    /\ tool = "patsnap"
    /\ pc = "done"
    /\ \E i \in 1..Len(patents) : ~Has(patents[i], Key.inventor)
    /\ result = Returned("except", PatsnapExceptionPrefix \o KeyErrorMsg(Key.inventor) \o <<".">>)

\* C2: a Patsnap run whose token exchange was answered 401, be it for the
\* primary search or for a secondary request, returns a text holding
\* "exception", not the no-result text.
C2_Unauthorized401IsReported ==
    (tool = "patsnap" /\ pc = "done" /\ hist.read.valid /\ hist.read.kind = "http_401")
        => /\ result.kind = "returned"
           /\ Contains(result.text, LitException)
           /\ result.text # NoPatentResult

\* C3: in every tool a failed primary search (other than a rate limit that
\* was retried) is returned as an error text that holds the failure's
\* message, never as the no-result answer.
C3_PrimaryFailureIsReported ==
    (pc = "done" /\ hist.primary.done /\ hist.primary.failed)
        => /\ result.kind = "returned"
           /\ result.path = "except"
           /\ Contains(result.text, hist.primary.msg)
           /\ result.text # Sentinel

\* C4: on the non-error path the returned text is never longer than
\* doc_content_chars_max, for every record set, the empty one included.
C4_LengthWithinMax ==
    (pc = "done" /\ result.path = "ok") => Len(result.text) <= cfg.doc_content_chars_max

\* C4, amended: on the non-error path the text returned for a non-empty
\* record set is never longer than doc_content_chars_max; for the empty
\* record set the text is the wrapper's no-result literal, uncut.
C4_LengthWithinMaxIfRecords ==
    (pc = "done" /\ result.path = "ok")
        => IF patents # << >>
           THEN Len(result.text) <= cfg.doc_content_chars_max
           ELSE result.text = Sentinel

\* A run whose blocks were cut: the text is as long as the maximum allows.
C4_Witness ==
    /\ pc = "done"
    /\ result.path = "ok"
    /\ Len(patents) = 2
    /\ cfg.doc_content_chars_max = 40
    /\ Len(result.text) = 40

\* C5: a run whose search yields no record returns exactly
\* "No good result was found", in every tool.
C5_OneSentinel == (pc = "done" /\ ZeroRecords) => result.text = NoGoodResult

\* C5, amended: a run whose search yields no record returns exactly its
\* wrapper's no-result literal: "No good Patent Result was found" (Patsnap,
\* PatentsView), "No academic papers found matching your search criteria."
\* (Semantic Scholar).
C5_SentinelPerWrapper ==
    (pc = "done" /\ ZeroRecords) => result = Returned("ok", Sentinel)

\* A Semantic Scholar run answered with no paper returned its literal.
C5_Witness ==
    /\ tool = "semantic_scholar"
    /\ pc = "done"
    /\ ZeroRecords
    /\ hist.requests >= 1
    /\ result.text = NoPapersFound

\* The answers to this run's Semantic Scholar requests that are failures
\* other than HTTP 429.
OtherFailures == SemanticScholarFailures \ {"http_429"}

\* C6: Semantic Scholar with max_retry = 3, answered 429, 429 and then with
\* papers: the run returns the papers of the third answer after exactly three
\* requests and two sleeps, the second sleep twice as long as the first.
C6_TwoRetriesThenSuccess ==
    (tool = "semantic_scholar" /\ cfg.max_retry = DefaultMaxRetry
        /\ hist.answers = <<"http_429", "http_429", "ok">>)
        => /\ pc = "done"
           /\ result = SemanticScholarRun(patents, cfg.doc_content_chars_max)
           /\ hist.primary.count = Len(patents)
           /\ hist.requests = 3
           /\ Len(hist.sleeps) = 2
           /\ hist.sleeps[2] = 2 * hist.sleeps[1]
           /\ hist.sleeps[2] > hist.sleeps[1]

\* Such a run, with papers in the third answer.
C6_Witness ==
    /\ tool = "semantic_scholar"
    /\ cfg.max_retry = DefaultMaxRetry
    /\ hist.answers = <<"http_429", "http_429", "ok">>
    /\ Len(patents) = 2
    /\ result.path = "ok"

\* C7: a Semantic Scholar failure other than HTTP 429 (another HTTP error, a
\* transport error, a malformed body), on whichever attempt, is raised at
\* once: it is the run's last answer, no sleep follows it, and the run ends
\* with its message.
C7_OtherFailuresRaiseAtOnce ==
    tool = "semantic_scholar" =>
        \A i \in 1..Len(hist.answers) :
            hist.answers[i] \in OtherFailures
                => /\ i = Len(hist.answers)
                   /\ pc = "done"
                   /\ result = Returned("except", SemanticScholarExceptionPrefix
                                    \o SemanticScholarFailureMsg(hist.answers[i]))
                   /\ hist.requests = i
                   /\ Len(hist.sleeps) = i - 1

\* A server error on the second attempt, after one rate limit.
C7_Witness ==
    /\ tool = "semantic_scholar"
    /\ hist.answers = <<"http_429", "http_error">>
    /\ pc = "done"

\* C8: a Semantic Scholar run (max_retry >= 1) answered 429 on every attempt
\* ends, after max_retry attempts, with the "Failed to retrieve ... after N
\* retries" exception.
C8_AllRateLimitedEndsExhausted ==
    (tool = "semantic_scholar" /\ pc = "done" /\ cfg.max_retry >= 1
        /\ hist.answers # << >>
        /\ \A i \in 1..Len(hist.answers) : hist.answers[i] = "http_429")
        => /\ Len(hist.answers) = cfg.max_retry
           /\ result = Returned("except", SemanticScholarExceptionPrefix
                            \o RetriesExhaustedMsg(cfg.max_retry))

\* This step read client.token.
TokenReadStep == tool = "patsnap" /\ hist'.reads = hist.reads + 1

\* The cached credential is absent or expired: now >= expires_at.
Expired(c, t) == Falsy(c._token) \/ t >= c._token_expire

\* C9: reading client.token (credentials configured) with the cached
\* credential absent or expired (now >= expires_at) makes exactly one token
\* exchange and returns the new token; with it not expired (now < expires_at)
\* it makes none and returns the cached token.
C9_RefreshIffExpired ==
    [][(TokenReadStep /\ ~Falsy(client.api_key) /\ ~Falsy(client.api_secret))
        => IF Expired(client, now)
           THEN /\ hist'.read.exchanges = 1
                /\ ~hist'.read.raised
                        => /\ hist'.read.value = client'._token
                           /\ hist'.read.value # client._token
           ELSE /\ hist'.read.exchanges = 0
                /\ hist'.read.value = client._token
                /\ client' = client]_vars

\* C10: get_bearer_token with the API key or the API secret (or both) not
\* configured fails before any token-exchange call and leaves the cached
\* credential as it was.
C10_MissingCredentialFailsFirst ==
    [][(TokenReadStep /\ hist'.read.refreshed
            /\ (Falsy(client.api_key) \/ Falsy(client.api_secret)))
        => /\ hist'.read.raised
           /\ hist'.read.exchanges = 0
           /\ client' = client]_vars

\* The optional fields of a record of the tool at hand, each with the label
\* its block shows it under.
OptionalFields ==
    CASE tool = "patsnap" ->
            {<<Key.patent_id, LitPatentID>>, <<Key.title, LitTitle>>, <<Key.abstract, LitAbstract>>,
             <<Key.inventor, LitInventor>>, <<Key.current_assignee, LitCurrentAssignee>>}
      [] tool = "patents_view" ->
            {<<Key.patent_id, LitPatentID>>, <<ViewKey.patent_title, LitTitle>>,
             <<ViewKey.patent_abstract, LitAbstract>>,
             <<ViewKey.patent_date, PatentsViewLabels.patent_date>>,
             <<ViewKey.assignees, PatentsViewLabels.assignees>>,
             <<ViewKey.inventors, PatentsViewLabels.inventors>>,
             <<ViewKey.g_claims, PatentsViewLabels.claims \o <<"\n">> >>}
      [] OTHER -> {<<Key.title, LitTitle>>, <<PaperKey.url, LitURL>>}

\* Every record was fetched whole: the primary search succeeded and no
\* secondary request failed or came back without data.
FetchedWhole == hist.primary.done /\ ~hist.primary.failed /\ hist.aux.kind = "none"

\* The text of the blocks is not cut by doc_content_chars_max.
Uncut == cfg.doc_content_chars_max = SEARCH_CONTENT_MAX_LENGTH

\* C11: when a record lacks an optional field, the run still returns the
\* blocks of all records, and the block shows "N/A" under that field's label.
C11_MissingFieldShowsNA ==
    (pc = "done" /\ FetchedWhole /\ Uncut)
        => /\ result.path = "ok"
           /\ \A i \in 1..Len(patents), f \in OptionalFields :
                ~Has(patents[i], f[1]) => Contains(result.text, f[2] \o LitNA)

\* A patent run that returned the blocks of its records, uncut.
ReturnedPatentBlocks ==
    /\ tool \in {"patsnap", "patents_view"}
    /\ pc = "done"
    /\ result.path = "ok"
    /\ patents # << >>
    /\ Uncut

\* The places of the returned text where "Patent ID: " starts.
BlockStarts ==
    {i \in 1..(Len(result.text) - Len(LitPatentID) + 1) :
        SubSeq(result.text, i, i + Len(LitPatentID) - 1) = LitPatentID}

\* The number of the block that starts at i.
BlockNumber(i) == Cardinality({j \in BlockStarts : j <= i})

\* What the block of record j begins with: the label and the record's id.
BlockHead(j) ==
    LitPatentID \o Str(Get(patents[j], Key.patent_id,
                           IF tool = "patsnap" THEN PyNone ELSE PyStr(LitNA)))

\* There are as many blocks as records, the first at the start of the text,
\* in the order of the records.
BlocksInOrder ==
    /\ Cardinality(BlockStarts) = Len(patents)
    /\ 1 \in BlockStarts
    /\ \A i \in BlockStarts :
        LET h == BlockHead(BlockNumber(i))
        IN  /\ i + Len(h) - 1 <= Len(result.text)
            /\ SubSeq(result.text, i, i + Len(h) - 1) = h

\* The block before the one that starts at i ends with a newline of its own.
EndsWithNewline(i) == i > 3 /\ result.text[i - 3] = "\n"

\* C12: a patent run that returns the blocks of k records returns k blocks in
\* upstream order, each beginning "Patent ID: ", and exactly one blank line
\* between consecutive blocks.
C12_BlocksOneBlankLine ==
    ReturnedPatentBlocks
        => /\ BlocksInOrder
           /\ \A i \in BlockStarts \ {1} :
                /\ i > 3
                /\ result.text[i - 1] = "\n"
                /\ result.text[i - 2] = "\n"
                /\ result.text[i - 3] # "\n"

\* C12, amended: k blocks in upstream order, each beginning "Patent ID: ",
\* joined by "\n\n". A Patsnap block ends with a newline, so at least two
\* blank lines come before the next block; a PatentsView block ends with its
\* claims text, so there is exactly one blank line unless that text ends with
\* a newline.
C12_BlocksJoinedByBlankLine ==
    ReturnedPatentBlocks
        => /\ BlocksInOrder
           /\ \A i \in BlockStarts \ {1} :
                /\ i > 3
                /\ result.text[i - 1] = "\n"
                /\ result.text[i - 2] = "\n"
                /\ tool = "patsnap" => EndsWithNewline(i)
                /\ tool = "patents_view" =>
                    LET shown == ClaimsDisplay(FormatResult(patents[BlockNumber(i) - 1]),
                                               cfg.claims_content_chars_max)
                    IN  EndsWithNewline(i) = (shown[Len(shown)] = "\n")

\* A Patsnap run returned the blocks of two records.
C12_Witness ==
    /\ ReturnedPatentBlocks
    /\ tool = "patsnap"
    /\ Len(patents) = 2
    /\ Cardinality(BlockStarts) = 2

\* The tool a category exports is the one that queries the engine its
\* environment variable names.
Selects(value, engines, exportedTool) ==
    value \in engines => Get(ToolEngine, exportedTool, None) = value

\* C13: for every engine of SearchEngine, LiteratureSearchEngine and
\* PatentSearchEngine named by the category's environment variable, the tool
\* src.tools exports for the category is the tool of that engine.
C13_EngineSelected ==
    pc = "imported"
        => /\ Selects(env.SEARCH_API, SearchEngine, exported.web_search_tool)
           /\ Selects(env.LITERATURE_SEARCH_API, LiteratureSearchEngine,
                      exported.literature_search_tool)
           /\ Selects(env.PATENT_SEARCH_API, PatentSearchEngine, exported.patent_search_tool)

\* No record lacks a key that lazy_load, _format_patent or search_patents
\* indexes.
Formattable ==
    \A i \in 1..Len(patents) :
        /\ Has(patents[i], Key.patent_id)
        /\ tool = "patsnap" => Has(patents[i], Key.title) /\ Has(patents[i], Key.inventor)

\* The field a secondary request fills.
AuxiliaryField(request) ==
    CASE request = "title_abstract" -> Key.abstract
      [] request = "core_invention_points" -> DetailKey.core_invention_points
      [] request = "legal_status" -> DetailKey.legal_status
      [] request = "claims" /\ tool = "patsnap" -> DetailKey.claims
      [] OTHER -> ViewKey.g_claims

\* The primary search succeeded and a secondary request itself (not the
\* token read before it) failed or came back without usable data.
SecondaryFailed ==
    /\ tool \in {"patsnap", "patents_view"}
    /\ hist.primary.done
    /\ ~hist.primary.failed
    /\ hist.aux.kind \notin {"none", "token"}

\* C14: when a secondary request fails in any way after a successful primary
\* search, the run still returns the blocks of all primary results, and the
\* field that request fills is empty in the affected record.
C14_SecondaryFailureDegrades ==
    (pc = "done" /\ SecondaryFailed /\ Formattable)
        => /\ result.path = "ok"
           /\ Uncut => Cardinality(BlockStarts) = hist.primary.count
           /\ ~Truthy(Get(patents[hist.aux.idx], AuxiliaryField(hist.aux.stage), PyNone))

\* C15: throughout a lazy_load call of the Semantic Scholar wrapper the retry
\* counter and the number of requests made stay within max_retry, and of two
\* consecutive sleeps the later is double the earlier, hence longer.
C15_RetryWithinBoundBackoffDoubles ==
    tool = "semantic_scholar"
        => /\ retry <= cfg.max_retry
           /\ Len(hist.answers) <= cfg.max_retry
           /\ \A i \in 1..(Len(hist.sleeps) - 1) :
                /\ hist.sleeps[i + 1] = 2 * hist.sleeps[i]
                /\ hist.sleeps[i + 1] > hist.sleeps[i]

\* A call that has slept twice and is at its last attempt.
C15_Witness ==
    /\ tool = "semantic_scholar"
    /\ pc = "retrying"
    /\ Len(hist.sleeps) = 2
    /\ retry = cfg.max_retry - 1

\* C16: every run() on a Semantic Scholar wrapper starts with the retry
\* counter at 0 and the backoff at the configured sleep_time, whatever the
\* earlier runs on the same wrapper did.
C16_RetryStateReset ==
    (tool = "semantic_scholar" /\ pc = "idle")
        => /\ retry = 0
           /\ sleep_time = DefaultSleepTime

\* A Patsnap request is sent with the token that was cached before the step.
SentWithCachedToken ==
    /\ TokenReadStep
    /\ hist'.requests = hist.requests + 1
    /\ hist'.read.exchanges = 0
    /\ hist'.read.value = client._token

\* C17: a cached credential is used only while now < expires_at: no request
\* is sent with a cached token read when now >= expires_at; at
\* now = expires_at the token is refreshed.
C17_CachedTokenOnlyWhileValid ==
    [][SentWithCachedToken => now < client._token_expire]_vars

\* A read of client.token went to the OAuth endpoint and the exchange failed.
ExchangeFailedStep ==
    /\ TokenReadStep
    /\ hist'.read.exchanges = 1
    /\ hist'.read.kind \in {"http_401", "status_false", "malformed"}

\* C18: a failed token exchange raises and leaves (_token, _token_expire) as
\* they were, and a read of client.token at any later time goes to the OAuth
\* endpoint again rather than returning the cached token.
C18_FailedExchangeKeepsCache ==
    [][ExchangeFailedStep
        => /\ hist'.read.raised
           /\ client' = client
           /\ \A t \in {now, now + 1, now + TokenTTL, MaxClock} :
                \A resp \in TokenResponses(client') :
                    Token(client', resp, t).exchanges = 1]_vars

\* The exchange failed while a token obtained earlier, now expired, was cached.
C18_Witness ==
    /\ hist.read.valid
    /\ hist.read.raised
    /\ hist.read.exchanges = 1
    /\ hist.read.kind = "http_401"
    /\ client._token = "tokA"
    /\ client._token_expire < now

\* The threads whose token exchange is with the OAuth endpoint.
InFlight == {t \in Threads : threads[t].pc = "in_flight"}

\* C19: of the threads sharing one client, at most one has a token exchange
\* in flight at any time, and no two completed an exchange for the same
\* expired (or empty) cached pair.
C19_SingleFlightRefresh ==
    /\ Cardinality(InFlight) <= 1
    /\ \A t, u \in Threads :
        (t # u /\ threads[t].got = "ok" /\ threads[u].got = "ok")
            => threads[t].cause # threads[u].cause

\* A Patsnap API request (the primary search or a secondary fetch) goes out.
RequestStep == tool = "patsnap" /\ hist'.requests = hist.requests + 1

\* C20: a Patsnap request that is sent has read client.token exactly once, and
\* while the clock is below the expiry the client had after the first token
\* exchange of this run, every further read leaves the run at that one
\* exchange, however many records and secondary fetches it has.
C20_OneTokenReadPerRequest ==
    [][/\ RequestStep => (hist'.reads = hist.reads + 1 /\ hist'.read.valid)
       /\ (TokenReadStep /\ hist.exchanges >= 1 /\ now < hist.expires_at)
            => hist'.exchanges = 1]_vars

\* A run of two records that made its primary search and four secondary
\* fetches with one token exchange.
C20_Witness ==
    /\ tool = "patsnap"
    /\ pc = "done"
    /\ Len(patents) = 2
    /\ hist.requests = 5
    /\ hist.reads = 5
    /\ hist.exchanges = 1
    /\ now < hist.expires_at

\* The clause of a search filter for one field.
Clause(op, field, query) == [op |-> op, field |-> field, value |-> query]

\* C21: search_patents sends one request whose filter is an OR of exactly two
\* clauses, over patent_title and patent_abstract, both "any term" when the
\* flag is true and "exact phrase" when it is false, with size = max_results
\* and sorted by patent_date descending.
C21_SearchPatentsQuery ==
    (call.fn = "search_patents" /\ call.sent # << >>)
        => LET op == IF call.fuzzy_search THEN "_text_any" ELSE "_text_phrase"
               body == call.sent[1]
           IN  /\ Len(call.sent) = 1
               /\ DOMAIN body.q = {"_or"}
               /\ body.q._or = <<Clause(op, "patent_title", call.query),
                                 Clause(op, "patent_abstract", call.query)>>
               /\ body.o = << <<"size", call.max_results>> >>
               /\ body.s = << <<"patent_date", "desc">> >>

\* An exact-phrase search for the empty query with max_results = 0 was sent.
C21_Witness ==
    /\ call.fn = "search_patents"
    /\ call.sent # << >>
    /\ ~call.fuzzy_search
    /\ call.query = << >>
    /\ call.max_results = 0

\* What a patent formatter writes before the claims text.
ClaimsLabel ==
    IF tool = "patents_view" THEN PatentsViewLabels.claims \o <<"\n">>
    ELSE KeyLabel(DetailKey.claims) \o <<":", " ">>

\* The claims text of record i as the formatter receives it.
ClaimsText(i) ==
    IF tool = "patents_view"
    THEN LET c == Get(FormatResult(patents[i]), ViewKey.g_claims, PyStr(<< >>))
         IN  IF Truthy(c) THEN Str(c) ELSE LitNA
    ELSE Str(Get(patents[i], DetailKey.claims, PyStr(<< >>)))

\* C22: no block of a returned patent text shows more than
\* claims_content_chars_max characters of its record's claims, for the
\* PatentsView and the Patsnap formatter alike.
C22_ClaimsWithinBudget ==
    (pc = "done" /\ tool \in {"patsnap", "patents_view"} /\ result.path = "ok" /\ Uncut)
        => \A i \in 1..Len(patents) :
            Len(ClaimsText(i)) > cfg.claims_content_chars_max
                => ~Contains(result.text,
                             ClaimsLabel
                                 \o SubSeq(ClaimsText(i), 1, cfg.claims_content_chars_max + 1))

\* The lines of the returned text that begin with the label.
LineStarts(label) ==
    LET text == <<"\n">> \o result.text
        pat == <<"\n">> \o label
    IN  Cardinality({j \in 1..(Len(text) - Len(pat) + 1) :
                        SubSeq(text, j, j + Len(pat) - 1) = pat})

\* The keys of the records of this run.
RecordKeys ==
    UNION {{patents[i][j][1] : j \in 1..Len(patents[i])} : i \in 1..Len(patents)}

\* The labels a key of a record can be rendered under: the label of the
\* formatter's fixed part, and for Patsnap the label made from the key.
FieldLabels(k) ==
    IF tool = "patents_view"
    THEN {f[2] : f \in {g \in OptionalFields : g[1] = k}}
    ELSE {f[2] : f \in {g \in OptionalFields \cup {<<Key.pn, LitPatentNumber>>} : g[1] = k}}
            \cup {KeyLabel(k) \o <<":", " ">>}

\* A run returned the blocks of its records, uncut.
ReturnedBlocks ==
    /\ pc = "done"
    /\ tool \in {"patsnap", "patents_view"}
    /\ result.path = "ok"
    /\ Uncut
    /\ Len(patents) >= 1

\* C23: in one run every block shows the same labels (a label begins a line
\* in every block or in none), and a field of a record is rendered at most
\* once in its block (the lines under its labels are no more than the blocks).
C23_BlockLayout ==
    ReturnedBlocks
        => \A k \in RecordKeys :
            /\ \A l \in FieldLabels(k) : LineStarts(l) \in {0, Len(patents)}
            /\ \A l1, l2 \in FieldLabels(k) :
                l1 # l2 => LineStarts(l1) + LineStarts(l2) <= Len(patents)

\* lazy_load of a Semantic Scholar wrapper has been called and has not ended.
LazyLoadRunning ==
    /\ tool = "semantic_scholar"
    /\ \/ pc = "retrying"
       \/ pc = "idle" /\ sleep_time <= MaxSleepTime

\* C24: a Semantic Scholar call ends whatever the upstream answers; it makes
\* at most max_retry requests and, for max_retry >= 1, at most max_retry - 1
\* sleeps; with max_retry <= 0 it ends without a request or a sleep, in the
\* "Failed to retrieve ..." exception.
C24_LazyLoadTerminates ==
    /\ [](tool = "semantic_scholar"
            => /\ hist.requests <= cfg.max_retry
               /\ cfg.max_retry >= 1 => Len(hist.sleeps) <= cfg.max_retry - 1
               /\ (cfg.max_retry <= 0 /\ pc = "done")
                    => /\ hist.requests = 0
                       /\ hist.sleeps = << >>
                       /\ result = Returned("except", SemanticScholarExceptionPrefix
                                        \o RetriesExhaustedMsg(cfg.max_retry)))
    /\ LazyLoadRunning ~> (pc = "done")

\* A call that ended with its last request after max_retry - 1 sleeps.
C24_Witness ==
    /\ tool = "semantic_scholar"
    /\ pc = "done"
    /\ cfg.max_retry = MaxRetryBound
    /\ hist.requests = cfg.max_retry
    /\ Len(hist.sleeps) = cfg.max_retry - 1

\* C25: a step changes the cached credential of at most one client, never a
\* class attribute, and leaves every other client as it was; a client without
\* a token of its own makes its own exchange at its next read.
C25_CredentialIsolation ==
    [][/\ instances'.cls = instances.cls
       /\ \A i, j \in Instances :
            (i # j /\ instances'.own[i] # instances.own[i])
                => /\ instances'.own[j] = instances.own[j]
                   /\ View(instances', j) = View(instances, j)
       /\ \A j \in Instances :
            ~Has(instances'.own[j], "_token")
                => \A resp \in TokenResponses(View(instances', j)) :
                       Token(View(instances', j), resp, now').exchanges = 1]_vars

\* One client holds a token, the other and the class hold none.
C25_Witness ==
    /\ Has(instances.own["c1"], "_token")
    /\ ~Has(instances.own["c2"], "_token")
    /\ instances.cls._token = None
    /\ View(instances, "c1")._token # None
    /\ View(instances, "c2")._token = None

\* The fields of a primary search result the claim names.
PrimaryFields == {Key.title, Key.patent_id}

\* C26: no step of a Patsnap run replaces a non-empty title or patent_id of
\* a record by an empty one: what the primary search gave stays non-empty in
\* the record once its details are merged.
C26_MergeKeepsPrimaryValues ==
    [][(tool = "patsnap" /\ pc = "detail" /\ Len(patents') = Len(patents))
        => \A i \in 1..Len(patents), k \in PrimaryFields :
            Truthy(Get(patents[i], k, PyNone)) => Truthy(Get(patents'[i], k, PyNone))]_vars

\* C27: whatever the three environment variables are, src.tools exports three
\* tool objects, none of them None, and with SEARCH_API not set the web
\* search tool is the Tavily tool.
C27_ExportedToolsUsable ==
    pc = "imported"
        => /\ exported.web_search_tool # None
           /\ exported.literature_search_tool # None
           /\ exported.patent_search_tool # None
           /\ env.SEARCH_API = None => exported.web_search_tool = "tavily_search_tool"

====
